---- MODULE Spec2Model ----
(***************************************************************************)
(* Model of the tabular type-inference engine of ndl-core-data-pipeline:   *)
(* the CSV / JSON / spreadsheet converters (null tokens, date and numeric  *)
(* classification, Text fallback), the ISO-8601 time utilities, the        *)
(* workbook read under its alarm, the parquet write, the partitions of     *)
(* format_records and deduplicate_folder.                                  *)
(*                                                                         *)
(* A string is a tuple of one-character strings, so that trimming, regex   *)
(* replacement and parsing are computed character by character.  The       *)
(* pandas semantics are those of pandas 2.x (object columns, astype(str)   *)
(* rendering a missing value as the text "<NA>", to_datetime guessing one  *)
(* format from the first non-null element).                                *)
(***************************************************************************)
EXTENDS Integers, Sequences, FiniteSets, TLC

VARIABLES
    converter,      \* which converter runs: "csv", "xlsx" or "json"
    strict_iso,     \* TRUE: datetime.fromisoformat of Python 3.10 (3 or 6 fraction digits only)
    raw,            \* the table as read from the source (never modified)
    df_raw,         \* the DataFrame the column loop reads (handle_null_values rewrites it)
    df_converted,   \* the converted columns written so far
    col,            \* index of the next column of the loop
    pc,             \* position of the converter
    writes,         \* per column: number of assignments df_converted[col] = ...
    numeric_tried,  \* per column: handle_numeric_column was called
    table,          \* the table handed to pq.write_table (<<>> before the write)
    date_str,       \* argument of parse_to_iso8601_utc (time utilities)
    iso_result,     \* its result: [raised, out]
    given,          \* the timestamp date_str was written from (<<>>: none)
    obj,            \* the source document: a JSON text or value, or the sheets of a workbook
    records,        \* convert_json_to_parquet: the row list
    ret,            \* what a converter call returned or raised (<<>>: still running)
    fs,             \* the files below the destination: a set of <<path, content>>
    uuid_names,     \* convert_spreadsheet_to_parquet: the naming policy
    output_path,    \* convert_spreadsheet_to_parquet: the kind of destination given
    uuids,          \* number of uuid.uuid4() values drawn so far
    sheet_at,       \* index of the next sheet of the sheet loop
    run,            \* which conversion into the destination is running
    out_dir,        \* convert_spreadsheet_to_parquet: the directory of a multi-sheet workbook
    written_paths,  \* per conversion: the paths written, in order
    handler,        \* the process's SIGALRM handler
    alarm,          \* the process's pending alarm ("none": no alarm is pending)
    caller_sig,     \* handler and alarm as they were when the converter was called
    read,           \* pd.read_excel: "none", "running", "done" or "abandoned"
    non_duplicates, \* NON_DUPLICATE_FILES: [exists, lines]
    partition_keys, \* the keys of PARTITIONS_DEF
    partition_key,  \* format_records: the partition that runs (-1: none)
    meta_at,        \* format_records: index of the next file of final_meta_files
    part_rows,      \* format_records: the rows built so far
    failed_meta,    \* format_records: the files whose processing raised
    stats_unsupported,   \* module-level count of files of an unsupported format
    data_file_not_found, \* module-level list of files without a convertible data file
    status,         \* the status records written, by partition key (<<>>: none)
    lines_at_import,\* lines _build_partitions_def found at import (-1: no file)
    all_files,      \* deduplicate_folder: the files of the folder, in scan order
    max_size_bytes, \* deduplicate_folder: the size limit given
    scan_at,        \* deduplicate_folder: index of the next file of the scan
    seen_hashes,    \* deduplicate_folder: the hashes seen so far
    kept_paths,     \* deduplicate_folder: the paths kept so far
    report          \* the report written by write_report (<<"none">>: not written)

sig_vars == <<handler, alarm, caller_sig, read>>

batch_vars == <<non_duplicates, partition_keys, partition_key, meta_at, part_rows,
                failed_meta, stats_unsupported, data_file_not_found, status,
                lines_at_import>>

dedupe_vars == <<all_files, max_size_bytes, scan_at, seen_hashes, kept_paths, report>>

pipeline_vars == <<batch_vars, dedupe_vars>>

io_vars == <<obj, records, ret, fs, uuid_names, output_path, uuids, sheet_at, run,
             out_dir, written_paths, sig_vars, pipeline_vars>>

table_vars == <<converter, strict_iso, raw, df_raw, df_converted, col, writes,
                numeric_tried, table, date_str, iso_result, given>>

vars == <<converter, strict_iso, raw, df_raw, df_converted, col, pc, writes,
          numeric_tried, table, date_str, iso_result, given, io_vars>>

\* No signal is in use
SigIdle ==
    /\ handler = "SIG_DFL"
    /\ alarm = "none"
    /\ caller_sig = [handler |-> "SIG_DFL", alarm |-> "none"]
    /\ read = "none"

\* No partition runs
BatchIdle ==
    /\ non_duplicates = [exists |-> FALSE, lines |-> <<>>]
    /\ partition_keys = {}
    /\ partition_key = -1
    /\ meta_at = 1
    /\ part_rows = <<>>
    /\ failed_meta = <<>>
    /\ stats_unsupported = 0
    /\ data_file_not_found = <<>>
    /\ status = <<>>
    /\ lines_at_import = -1

\* No folder is scanned
DedupeIdle ==
    /\ all_files = <<>>
    /\ max_size_bytes = 0
    /\ scan_at = 1
    /\ seen_hashes = {}
    /\ kept_paths = <<>>
    /\ report = <<"none">>

\* No document is being converted
IoIdle ==
    /\ SigIdle
    /\ BatchIdle
    /\ DedupeIdle
    /\ obj = <<>>
    /\ records = <<>>
    /\ ret = <<>>
    /\ fs = {}
    /\ uuid_names = FALSE
    /\ output_path = "file"
    /\ uuids = 0
    /\ sheet_at = 1
    /\ run = 1
    /\ out_dir = <<>>
    /\ written_paths = <<>>

(***************************************************************************)
(* Characters and strings                                                  *)
(***************************************************************************)
DigitChars == <<"0", "1", "2", "3", "4", "5", "6", "7", "8", "9">>

IsDigit(c) == \E i \in 1..10 : DigitChars[i] = c

DigitVal(c) == (CHOOSE i \in 1..10 : DigitChars[i] = c) - 1

\* Python's \s restricted to the characters of the model's alphabet
Whitespace == {" "}

\* pd.NA / NaT: a missing value.  It is a tuple like every string, and differs
\* from every string because its single element is not one character.
NA == <<"pd.NA">>

IsNA(v) == v = NA

AllDigits(s) == \A i \in 1..Len(s) : IsDigit(s[i])

RECURSIVE DigitsToNat(_)
\* int("0123") of an all-digit string
DigitsToNat(s) ==
    IF s = <<>> THEN 0
    ELSE 10 * DigitsToNat(SubSeq(s, 1, Len(s) - 1)) + DigitVal(s[Len(s)])

RECURSIVE Pow10(_)
Pow10(n) == IF n = 0 THEN 1 ELSE 10 * Pow10(n - 1)

RECURSIVE NatToDigits(_, _)
\* n zero-padded to the given width (width >= number of digits of n)
NatToDigits(n, width) ==
    IF width = 0 THEN <<>>
    ELSE Append(NatToDigits(n \div 10, width - 1), DigitChars[(n % 10) + 1])

RECURSIVE NatToStr(_)
\* str(n) for n >= 0: no padding
NatToStr(n) ==
    IF n < 10 THEN <<DigitChars[n + 1]>>
    ELSE Append(NatToStr(n \div 10), DigitChars[(n % 10) + 1])

RECURSIVE LStrip(_)
LStrip(s) ==
    IF s # <<>> /\ Head(s) \in Whitespace THEN LStrip(Tail(s)) ELSE s

RECURSIVE RStrip(_)
RStrip(s) ==
    IF s # <<>> /\ s[Len(s)] \in Whitespace
    THEN RStrip(SubSeq(s, 1, Len(s) - 1)) ELSE s

\* str.strip() of one value
StrStrip(s) == RStrip(LStrip(s))

RECURSIVE RemoveChars(_, _)
\* re.sub("[...]", "", s): every character of the class is removed
RemoveChars(s, class) ==
    IF s = <<>> THEN <<>>
    ELSE IF Head(s) \in class THEN RemoveChars(Tail(s), class)
         ELSE <<Head(s)>> \o RemoveChars(Tail(s), class)

\* Position of the first occurrence of c in s, 0 when absent
IndexOf(s, c) ==
    IF \E i \in 1..Len(s) : s[i] = c
    THEN CHOOSE i \in 1..Len(s) : s[i] = c /\ \A j \in 1..(i - 1) : s[j] # c
    ELSE 0

EndsWith(s, p) == Len(s) >= Len(p) /\ SubSeq(s, Len(s) - Len(p) + 1, Len(s)) = p

\* Apply f to every element of a column
MapCol(f(_), s) == [i \in 1..Len(s) |-> f(s[i])]

\* Number of elements of a column that satisfy p
RECURSIVE CountIf(_, _)
CountIf(p(_), s) ==
    IF s = <<>> THEN 0
    ELSE (IF p(Head(s)) THEN 1 ELSE 0) + CountIf(p, Tail(s))

(***************************************************************************)
(* Null tokens (csv_to_parquet.py)                                         *)
(***************************************************************************)
NULL_TOKENS ==
    { <<"N", "A">>, <<"N", "/", "A">>, <<"N", "U", "L", "L">>,
      <<"n", "u", "l", "l">>, <<"n", "a">>, <<"n", "/", "a">>,
      <<"N", "o", "n", "e">>, <<"N", "O", "N", "E">>, <<"-">>, <<>> }

\* Series.astype(str) of one value of an object column: a missing value
\* becomes the four characters <NA>
AsTypeStr(v) == IF IsNA(v) THEN <<"<", "N", "A", ">">> ELSE v

\* Series.astype('string') of one value: missing stays missing
AsTypeString(v) == v

\* .str.strip() of one value: the str accessor skips missing values
StrStripNA(v) == IF IsNA(v) THEN NA ELSE StrStrip(v)

\* Series.replace(list(NULL_TOKENS), pd.NA) of one value
ReplaceNullTokens(v) == IF v \in NULL_TOKENS THEN NA ELSE v

\* handle_null_values on one cell: an exact (untrimmed) token becomes pd.NA
NullCell(v) == IF v \in NULL_TOKENS THEN NA ELSE v

\* handle_null_values on a table
handle_null_values(df) == [c \in 1..Len(df) |-> MapCol(NullCell, df[c])]

(***************************************************************************)
(* Numeric coercion (csv_to_parquet.py: _clean_numeric_string,             *)
(* handle_numeric_column)                                                  *)
(***************************************************************************)
CurrencySymbols == {"£", "$", "€"}

\* _clean_numeric_string on one value
CleanNumericCell(v) ==
    LET s2 == ReplaceNullTokens(StrStrip(AsTypeStr(v)))
    IN  IF IsNA(s2) THEN NA
        ELSE RemoveChars(RemoveChars(s2, Whitespace \cup {","}), CurrencySymbols)

\* A numeric candidate whose percent signs are left in place
NumericCandidateKeepsPercent(v) ==
    IF CleanNumericCell(v) = <<>> THEN NA ELSE CleanNumericCell(v)

\* handle_numeric_column lines 126-130 on one value: the numeric candidate
NumericCandidate(v) ==
    LET s_clean == CleanNumericCell(v)
        no_pct  == IF IsNA(s_clean) THEN NA ELSE RemoveChars(s_clean, {"%"})
    IN  IF no_pct = <<>> THEN NA ELSE no_pct

\* A number is <<"num", m, e>>: the value m / 10^e, e the count of fraction digits read.
Num(m, e) == <<"num", m, e>>

\* The unsigned decimal grammar of pd.to_numeric over the model's alphabet:
\* digits, digits "." [digits], "." digits
UnsignedOk(s) ==
    LET dot == IndexOf(s, ".")
    IN  IF dot = 0 THEN s # <<>> /\ AllDigits(s)
        ELSE /\ AllDigits(SubSeq(s, 1, dot - 1))
             /\ AllDigits(SubSeq(s, dot + 1, Len(s)))
             /\ Len(s) > 1

UnsignedNum(s) ==
    LET dot == IndexOf(s, ".")
    IN  IF dot = 0 THEN Num(DigitsToNat(s), 0)
        ELSE Num(DigitsToNat(SubSeq(s, 1, dot - 1) \o SubSeq(s, dot + 1, Len(s))),
                 Len(s) - dot)

\* The decimal digits of the largest int64, 9223372036854775807
Int64Digits == 19

RECURSIVE StripLeadingZeros(_)
StripLeadingZeros(s) ==
    IF Len(s) > 1 /\ Head(s) = "0" THEN StripLeadingZeros(Tail(s)) ELSE s

\* A string of digits that denotes an integer of more digits than any int64:
\* pd.to_numeric reads it as a float64 (or uint64) above the int64 range
WiderThanInt64(s) == AllDigits(s) /\ Len(StripLeadingZeros(s)) > Int64Digits

\* The number read from such a string: only its sign is kept
Wide(sign) == <<"wide", sign>>

IsWide(n) == n[1] = "wide"

\* pd.to_numeric(errors='coerce') on one value: the number, or NA (NaN)
ToNumeric(v) ==
    IF IsNA(v) \/ v = <<>> THEN NA
    ELSE IF Head(v) = "-"
         THEN IF WiderThanInt64(Tail(v)) THEN Wide(0 - 1)
              ELSE IF UnsignedOk(Tail(v))
              THEN Num(0 - UnsignedNum(Tail(v))[2], UnsignedNum(Tail(v))[3])
              ELSE NA
         ELSE IF WiderThanInt64(v) THEN Wide(1)
              ELSE IF UnsignedOk(v) THEN UnsignedNum(v) ELSE NA

\* value % 1 == 0 (every float64 above 2^53 is integral)
IsIntegral(n) == IsWide(n) \/ n[2] % Pow10(n[3]) = 0

\* Two numbers denote the same value
NumEq(a, b) ==
    IF IsWide(a) \/ IsWide(b) THEN a = b
    ELSE a[2] * Pow10(b[3]) = b[2] * Pow10(a[3])

NotNA(v) == ~IsNA(v)

\* astype('Int64') of one value of numeric_vals
AsInt64(n) == IF IsNA(n) THEN NA ELSE <<"int", n[2] \div Pow10(n[3])>>

\* astype('Float64') of one value of numeric_vals
AsFloat64(n) ==
    IF IsNA(n) THEN NA ELSE IF IsWide(n) THEN n ELSE <<"float", n[2], n[3]>>

\* IntegerDtype._safe_cast inside astype('Int64'): a value that does not
\* survive the cast to int64 raises TypeError
SafeCastRaises(vals) == \E i \in 1..Len(vals) : NotNA(vals[i]) /\ IsWide(vals[i])

\* numeric_ok / total_non_null_num >= 0.9
NumericThresholdMet(ok, total) == total > 0 /\ 10 * ok >= 9 * total

\* (nonnull_numeric % 1 == 0).any()
SomeIntegral(vals) == \E i \in 1..Len(vals) : NotNA(vals[i]) /\ IsIntegral(vals[i])

\* (nonnull_numeric % 1 == 0).all()
AllIntegral(vals) == \A i \in 1..Len(vals) : IsNA(vals[i]) \/ IsIntegral(vals[i])

\* handle_numeric_column: [kind |-> "Integer" | "Float" | "None" | "Raises", vals]
NumericDecision(s_clean_no_pct, numeric_vals) ==
    IF NumericThresholdMet(CountIf(NotNA, numeric_vals), CountIf(NotNA, s_clean_no_pct))
    THEN IF AllIntegral(numeric_vals)
         THEN IF SafeCastRaises(numeric_vals)
              THEN [kind |-> "Raises", vals |-> <<>>]
              ELSE [kind |-> "Integer", vals |-> MapCol(AsInt64, numeric_vals)]
         ELSE [kind |-> "Float", vals |-> MapCol(AsFloat64, numeric_vals)]
    ELSE [kind |-> "None", vals |-> <<>>]

\* lines 132-144 of handle_numeric_column on the cleaned column
NumericOfCleaned(s_clean_no_pct) ==
    NumericDecision(s_clean_no_pct, MapCol(ToNumeric, s_clean_no_pct))

handle_numeric_column(s) == NumericOfCleaned(MapCol(NumericCandidate, s))

(***************************************************************************)
(* Calendar arithmetic of Python's datetime                                *)
(***************************************************************************)
IsLeap(y) == y % 4 = 0 /\ (y % 100 # 0 \/ y % 400 = 0)

DaysInMonth(y, m) ==
    IF m = 2 THEN (IF IsLeap(y) THEN 29 ELSE 28)
    ELSE IF m \in {4, 6, 9, 11} THEN 30 ELSE 31

ValidDate(y, m, d) == y \in 1..9999 /\ m \in 1..12 /\ d \in 1..DaysInMonth(y, m)

ValidTime(h, mi, s) == h \in 0..23 /\ mi \in 0..59 /\ s \in 0..59

\* A datetime.datetime is <<"dt", year, month, day, hour, minute, second,
\* microsecond, aware, utcoffset in minutes>>
Dt(y, m, d, h, mi, s, us, aware, off) == <<"dt", y, m, d, h, mi, s, us, aware, off>>

\* The date one day before / after <<y, m, d>>; <<0, 0, 0>> when it leaves 1..9999
PrevDay(y, m, d) ==
    IF d > 1 THEN <<y, m, d - 1>>
    ELSE IF m > 1 THEN <<y, m - 1, DaysInMonth(y, m - 1)>>
    ELSE IF y > 1 THEN <<y - 1, 12, 31>> ELSE <<0, 0, 0>>

NextDay(y, m, d) ==
    IF d < DaysInMonth(y, m) THEN <<y, m, d + 1>>
    ELSE IF m < 12 THEN <<y, m + 1, 1>>
    ELSE IF y < 9999 THEN <<y + 1, 1, 1>> ELSE <<0, 0, 0>>

\* The datetime of astimezone: [ok, dt]; not ok is Python's OverflowError
UtcOn(dt, date, m2) ==
    [ok |-> date[1] # 0,
     dt |-> Dt(date[1], date[2], date[3], m2 \div 60, m2 % 60, dt[7], dt[8], TRUE, 0)]

\* mins is the minute of the day in UTC, before it is brought back into a day
UtcShift(dt, mins) ==
    UtcOn(dt,
          IF mins < 0 THEN PrevDay(dt[2], dt[3], dt[4])
          ELSE IF mins >= 1440 THEN NextDay(dt[2], dt[3], dt[4])
          ELSE <<dt[2], dt[3], dt[4]>>,
          IF mins < 0 THEN mins + 1440
          ELSE IF mins >= 1440 THEN mins - 1440 ELSE mins)

\* dt.replace(tzinfo=timezone.utc) of an aware datetime: the clock kept as it is
AsTimezoneRelabel(dt) ==
    [ok |-> TRUE, dt |-> Dt(dt[2], dt[3], dt[4], dt[5], dt[6], dt[7], dt[8], TRUE, 0)]

\* dt.astimezone(timezone.utc) of an aware datetime (|utcoffset| < 24 h):
\* [ok, dt]; not ok is Python's OverflowError
AsTimezoneUtc(dt) == UtcShift(dt, dt[5] * 60 + dt[6] - dt[10])

(***************************************************************************)
(* time_utils.py                                                           *)
(***************************************************************************)
\* s[i .. i+n-1] is n digits
IsNum(s, i, n) == i + n - 1 <= Len(s) /\ AllDigits(SubSeq(s, i, i + n - 1))

NumAt(s, i, n) == DigitsToNat(SubSeq(s, i, i + n - 1))

RECURSIVE RStripZeros(_)
\* frac.rstrip('0')
RStripZeros(s) ==
    IF s # <<>> /\ s[Len(s)] = "0" THEN RStripZeros(SubSeq(s, 1, Len(s) - 1)) ELSE s

\* dt.strftime('%Y-%m-%dT%H:%M:%S'); glibc's %Y does not pad the year
StrfDateTime(y, m, d, h, mi, s) ==
    NatToStr(y) \o <<"-">> \o NatToDigits(m, 2) \o <<"-">> \o NatToDigits(d, 2)
    \o <<"T">> \o NatToDigits(h, 2) \o <<":">> \o NatToDigits(mi, 2)
    \o <<":">> \o NatToDigits(s, 2)

\* dt.strftime('%Y-%m-%d')
StrfDate(y, m, d) ==
    NatToStr(y) \o <<"-">> \o NatToDigits(m, 2) \o <<"-">> \o NatToDigits(d, 2)

UtcSuffix == <<"+", "0", "0", ":", "0", "0">>

\* _format_dt_iso: [ok, out]; not ok is the OverflowError of astimezone
FormatUtc(ok, dt) ==
    [ok  |-> ok,
     out |-> StrfDateTime(dt[2], dt[3], dt[4], dt[5], dt[6], dt[7])
             \o (IF dt[8] # 0 THEN <<".">> \o RStripZeros(NatToDigits(dt[8], 6)) ELSE <<>>)
             \o UtcSuffix]

FormatConverted(conv) == FormatUtc(conv.ok, conv.dt)

_format_dt_iso(dt) ==
    FormatConverted(IF dt[9] THEN AsTimezoneUtc(dt) ELSE [ok |-> TRUE, dt |-> dt])

\* The [+-]HH:MM offset of an ISO string: [ok, off]
ParseTzOffset(t) ==
    IF Len(t) = 6 /\ t[1] \in {"+", "-"} /\ IsNum(t, 2, 2) /\ t[4] = ":" /\ IsNum(t, 5, 2)
       /\ NumAt(t, 2, 2) < 24 /\ NumAt(t, 5, 2) < 60
    THEN [ok |-> TRUE,
          off |-> (IF t[1] = "-" THEN -1 ELSE 1) * (NumAt(t, 2, 2) * 60 + NumAt(t, 5, 2))]
    ELSE [ok |-> FALSE, off |-> 0]

\* The fraction digits of an ISO time: Python 3.10 takes exactly 3 or 6,
\* Python 3.11 and later any count, cut after the sixth: [ok, us]
ParseFraction(f, strict) ==
    IF f = <<>> \/ ~AllDigits(f) THEN [ok |-> FALSE, us |-> 0]
    ELSE IF strict /\ Len(f) \notin {3, 6} THEN [ok |-> FALSE, us |-> 0]
    ELSE LET six == IF Len(f) >= 6 THEN SubSeq(f, 1, 6) ELSE f
         IN  [ok |-> TRUE, us |-> DigitsToNat(six) * Pow10(6 - Len(six))]

\* HH:MM:SS of t with the fraction fr read after it
WithFraction(t, hms, fr) ==
    [ok |-> hms /\ fr.ok, h |-> NumAt(t, 1, 2), mi |-> NumAt(t, 4, 2),
     s |-> NumAt(t, 7, 2), us |-> fr.us]

\* HH[:MM[:SS[.f...]]] : [ok, h, mi, s, us]
ParseIsoTime(t, strict) ==
    LET bad == [ok |-> FALSE, h |-> 0, mi |-> 0, s |-> 0, us |-> 0]
        L   == Len(t)
    IN  IF ~IsNum(t, 1, 2) THEN bad
        ELSE IF L = 2 THEN [ok |-> NumAt(t, 1, 2) < 24, h |-> NumAt(t, 1, 2),
                            mi |-> 0, s |-> 0, us |-> 0]
        ELSE IF ~(t[3] = ":" /\ IsNum(t, 4, 2)) THEN bad
        ELSE IF L = 5 THEN [ok |-> ValidTime(NumAt(t, 1, 2), NumAt(t, 4, 2), 0),
                            h |-> NumAt(t, 1, 2), mi |-> NumAt(t, 4, 2), s |-> 0, us |-> 0]
        ELSE IF ~(t[6] = ":" /\ IsNum(t, 7, 2)) THEN bad
        ELSE LET hms == ValidTime(NumAt(t, 1, 2), NumAt(t, 4, 2), NumAt(t, 7, 2))
             IN  IF L = 8 THEN [ok |-> hms, h |-> NumAt(t, 1, 2), mi |-> NumAt(t, 4, 2),
                                s |-> NumAt(t, 7, 2), us |-> 0]
                 ELSE IF t[9] # "." THEN bad
                 ELSE WithFraction(t, hms, ParseFraction(SubSeq(t, 10, L), strict))

\* Position of the first + or - of t, 0 when there is none
TzStart(t) ==
    IF \E i \in 1..Len(t) : t[i] \in {"+", "-"}
    THEN CHOOSE i \in 1..Len(t) :
             t[i] \in {"+", "-"} /\ \A j \in 1..(i - 1) : t[j] \notin {"+", "-"}
    ELSE 0

\* A parse that failed
BadDt == [ok |-> FALSE, dt |-> Dt(0, 0, 0, 0, 0, 0, 0, FALSE, 0)]

\* The time tm and the offset tz read after the date y-m-d
IsoCombine(y, m, d, tm, tz, aware) ==
    IF tm.ok /\ tz.ok
    THEN [ok |-> TRUE, dt |-> Dt(y, m, d, tm.h, tm.mi, tm.s, tm.us, aware, tz.off)]
    ELSE BadDt

\* body is the text after the separator, less a final Z; tzpos is where its
\* offset starts (0: none)
IsoSplit(y, m, d, body, tzpos, zulu, strict) ==
    IF zulu /\ tzpos # 0 THEN BadDt
    ELSE IsoCombine(y, m, d,
                    ParseIsoTime(IF tzpos = 0 THEN body ELSE SubSeq(body, 1, tzpos - 1),
                                 strict),
                    IF tzpos = 0 THEN [ok |-> TRUE, off |-> 0]
                    ELSE ParseTzOffset(SubSeq(body, tzpos, Len(body))),
                    zulu \/ tzpos # 0)

IsoBody(y, m, d, body, zulu, strict) ==
    IsoSplit(y, m, d, body, TzStart(body), zulu, strict)

IsoTimePart(y, m, d, rest, zulu, strict) ==
    IsoBody(y, m, d, IF zulu THEN SubSeq(rest, 1, Len(rest) - 1) ELSE rest, zulu, strict)

\* s starts with the well-formed date text of y-m-d
IsoDate(s, y, m, d, strict) ==
    IF ~ValidDate(y, m, d) THEN BadDt
    ELSE IF Len(s) = 10 THEN [ok |-> TRUE, dt |-> Dt(y, m, d, 0, 0, 0, 0, FALSE, 0)]
    ELSE IF Len(s) = 11 THEN BadDt
    ELSE IsoTimePart(y, m, d, SubSeq(s, 12, Len(s)), ~strict /\ s[Len(s)] = "Z", strict)

\* datetime.fromisoformat over YYYY-MM-DD[*HH[:MM[:SS[.f]]][+HH:MM | Z]]:
\* [ok, dt].  strict is Python 3.10 (no Z, 3 or 6 fraction digits).
FromIsoFormat(s, strict) ==
    IF ~(Len(s) >= 10 /\ IsNum(s, 1, 4) /\ s[5] = "-" /\ IsNum(s, 6, 2) /\ s[8] = "-"
         /\ IsNum(s, 9, 2)) THEN BadDt
    ELSE IsoDate(s, NumAt(s, 1, 4), NumAt(s, 6, 2), NumAt(s, 9, 2), strict)

\* calendar.month_abbr and calendar.month_name of the C locale
MonthAbbr ==
    << <<"J", "a", "n">>,
       <<"F", "e", "b">>,
       <<"M", "a", "r">>,
       <<"A", "p", "r">>,
       <<"M", "a", "y">>,
       <<"J", "u", "n">>,
       <<"J", "u", "l">>,
       <<"A", "u", "g">>,
       <<"S", "e", "p">>,
       <<"O", "c", "t">>,
       <<"N", "o", "v">>,
       <<"D", "e", "c">> >>

MonthName ==
    << <<"J", "a", "n", "u", "a", "r", "y">>,
       <<"F", "e", "b", "r", "u", "a", "r", "y">>,
       <<"M", "a", "r", "c", "h">>,
       <<"A", "p", "r", "i", "l">>,
       <<"M", "a", "y">>,
       <<"J", "u", "n", "e">>,
       <<"J", "u", "l", "y">>,
       <<"A", "u", "g", "u", "s", "t">>,
       <<"S", "e", "p", "t", "e", "m", "b", "e", "r">>,
       <<"O", "c", "t", "o", "b", "e", "r">>,
       <<"N", "o", "v", "e", "m", "b", "e", "r">>,
       <<"D", "e", "c", "e", "m", "b", "e", "r">> >>

\* Index of name in a month table, 0 when absent
MonthIndex(names, name) ==
    IF \E i \in 1..12 : names[i] = name THEN CHOOSE i \in 1..12 : names[i] = name ELSE 0

RECURSIVE SplitBy(_, _)
\* s.split(c)
SplitBy(s, c) ==
    LET i == IndexOf(s, c)
    IN  IF i = 0 THEN <<s>>
        ELSE <<SubSeq(s, 1, i - 1)>> \o SplitBy(SubSeq(s, i + 1, Len(s)), c)

\* A strptime numeric field of one or two digits
IsShortNum(f) == Len(f) \in {1, 2} /\ AllDigits(f)

\* %H:%M:%S of strptime over the fields p: [ok, h, mi, s]
StrpTimeFields(p) ==
    IF Len(p) = 3 /\ \A i \in 1..3 : IsShortNum(p[i])
    THEN [ok |-> ValidTime(DigitsToNat(p[1]), DigitsToNat(p[2]), DigitsToNat(p[3])),
          h |-> DigitsToNat(p[1]), mi |-> DigitsToNat(p[2]), s |-> DigitsToNat(p[3])]
    ELSE [ok |-> FALSE, h |-> 0, mi |-> 0, s |-> 0]

StrpTime(f) == StrpTimeFields(SplitBy(f, ":"))

\* The strptime formats of parse_to_iso8601_utc, in the order they are tried
StrpFormats == <<"%d %b %Y", "%d %B %Y", "%d %b %Y %H:%M:%S", "%d %B %Y %H:%M:%S",
                 "%d/%m/%Y", "%d-%m-%Y", "%Y-%m-%d">>

\* datetime(y, m, d, h, mi, sec), or the ValueError of strptime
MakeDt(y, m, d, h, mi, sec) ==
    IF ValidDate(y, m, d) /\ ValidTime(h, mi, sec)
    THEN [ok |-> TRUE, dt |-> Dt(y, m, d, h, mi, sec, 0, FALSE, 0)] ELSE BadDt

\* "%d %b %Y" and "%d %B %Y", with or without " %H:%M:%S", over the words of s
StrpWords(words, names, tm) ==
    IF IsShortNum(words[1]) /\ MonthIndex(names, words[2]) # 0
       /\ Len(words[3]) = 4 /\ AllDigits(words[3]) /\ tm.ok
    THEN MakeDt(DigitsToNat(words[3]), MonthIndex(names, words[2]),
                DigitsToNat(words[1]), tm.h, tm.mi, tm.s)
    ELSE BadDt

StrpNamed(words, names, timed) ==
    IF Len(words) # (IF timed THEN 4 ELSE 3) THEN BadDt
    ELSE StrpWords(words, names,
                   IF timed THEN StrpTime(words[4])
                   ELSE [ok |-> TRUE, h |-> 0, mi |-> 0, s |-> 0])

\* "%d/%m/%Y", "%d-%m-%Y" and "%Y-%m-%d" over the fields f of s
StrpNumeric(f, fmt) ==
    IF Len(f) # 3 THEN BadDt
    ELSE IF fmt = "%Y-%m-%d"
    THEN IF Len(f[1]) = 4 /\ AllDigits(f[1]) /\ IsShortNum(f[2]) /\ IsShortNum(f[3])
         THEN MakeDt(DigitsToNat(f[1]), DigitsToNat(f[2]), DigitsToNat(f[3]), 0, 0, 0)
         ELSE BadDt
    ELSE IF IsShortNum(f[1]) /\ IsShortNum(f[2]) /\ Len(f[3]) = 4 /\ AllDigits(f[3])
         THEN MakeDt(DigitsToNat(f[3]), DigitsToNat(f[2]), DigitsToNat(f[1]), 0, 0, 0)
         ELSE BadDt

\* datetime.strptime(s, fmt) for the formats above: [ok, dt] (a naive datetime)
StrPTime(s, fmt) ==
    IF fmt \in {"%d %b %Y", "%d %B %Y", "%d %b %Y %H:%M:%S", "%d %B %Y %H:%M:%S"}
    THEN StrpNamed(SplitBy(s, " "),
                   IF fmt \in {"%d %b %Y", "%d %b %Y %H:%M:%S"} THEN MonthAbbr
                   ELSE MonthName,
                   fmt \in {"%d %b %Y %H:%M:%S", "%d %B %Y %H:%M:%S"})
    ELSE StrpNumeric(SplitBy(s, IF fmt = "%d/%m/%Y" THEN "/" ELSE "-"), fmt)

\* dt.replace(tzinfo=timezone.utc)
ReplaceTzUtc(dt) == Dt(dt[2], dt[3], dt[4], dt[5], dt[6], dt[7], dt[8], TRUE, 0)

\* A try block that raised
Failed == [ok |-> FALSE, out |-> <<>>]

\* _format_dt_iso of a parse that succeeded
FormatParsed(p) == IF p.ok THEN _format_dt_iso(p.dt) ELSE Failed

\* datetime.fromisoformat followed by _format_dt_iso inside one try block:
\* [ok, out]; not ok when either raises
TryIso(s, strict) == FormatParsed(FromIsoFormat(s, strict))

RECURSIVE TryStrpFormats(_, _)
\* One turn of the loop over fmts: p is strptime's result for format i
StrpOrNext(s, i, p) ==
    IF p.ok THEN _format_dt_iso(ReplaceTzUtc(p.dt)) ELSE TryStrpFormats(s, i + 1)

\* The loop over fmts from index i: [ok, out]
TryStrpFormats(s, i) ==
    IF i > Len(StrpFormats) THEN Failed
    ELSE StrpOrNext(s, i, StrPTime(s, StrpFormats[i]))

\* The first attempt that did not raise: [raised, out]
FirstParsed(z, direct, human) ==
    IF z.ok THEN [raised |-> FALSE, out |-> z.out]
    ELSE IF direct.ok THEN [raised |-> FALSE, out |-> direct.out]
    ELSE IF human.ok THEN [raised |-> FALSE, out |-> human.out]
    ELSE [raised |-> TRUE, out |-> <<>>]

\* parse_to_iso8601_utc: [raised, out]
parse_to_iso8601_utc(s, strict) ==
    IF s = <<>> THEN [raised |-> FALSE, out |-> s]
    ELSE FirstParsed(IF EndsWith(s, <<"Z">>)
                     THEN TryIso(SubSeq(s, 1, Len(s) - 1) \o UtcSuffix, strict)
                     ELSE Failed,
                     TryIso(s, strict),
                     TryStrpFormats(s, 1))

(***************************************************************************)
(* Date detection (csv_to_parquet.py: handle_iso8601_dates) and the        *)
(* pandas calls it makes                                                   *)
(***************************************************************************)
\* A pandas.Timestamp is <<"ts", year, month, day, hour, minute, second,
\* nanoseconds of the second>>; NaT is NA
Ts(y, m, d, h, mi, s, ns) == <<"ts", y, m, d, h, mi, s, ns>>

\* Years whose every instant a datetime64[ns] holds (1677-09-21 .. 2262-04-11)
InNsBounds(y) == y \in 1678..2261

\* time_re = r"^\d{1,2}:\d{2}(?::\d{2}(?:\.\d+)?)?$" under Series.str.match
TimeReSeconds(q) ==
    /\ Len(q) \in {1, 2}
    /\ Len(q[1]) = 2 /\ AllDigits(q[1])
    /\ Len(q) = 2 => (q[2] # <<>> /\ AllDigits(q[2]))

TimeReFields(p) ==
    /\ Len(p) \in {2, 3}
    /\ IsShortNum(p[1])
    /\ Len(p[2]) = 2 /\ AllDigits(p[2])
    /\ Len(p) = 3 => TimeReSeconds(SplitBy(p[3], "."))

MatchesTimeRe(s) == TimeReFields(SplitBy(s, ":"))

\* The format pandas.to_datetime reads a string in, as guess_datetime_format
\* names it; "time" is a time of day (pandas' _TIMEPAT branch, no format),
\* "none" a string no parser of pandas reads as a date
DateFormatGiven(s, iso) ==
    IF Len(s) = 4 /\ AllDigits(s) THEN "%Y"
    ELSE IF Len(s) = 10 /\ iso.ok THEN "%Y-%m-%d"
    ELSE IF Len(s) = 19 /\ iso.ok /\ ~iso.dt[9] /\ s[17] = ":" /\ s[11] = "T"
         THEN "%Y-%m-%dT%H:%M:%S"
    ELSE IF Len(s) = 19 /\ iso.ok /\ ~iso.dt[9] /\ s[17] = ":" /\ s[11] = " "
         THEN "%Y-%m-%d %H:%M:%S"
    ELSE IF Len(s) \in 21..29 /\ s[11] = "T" /\ s[17] = ":" /\ s[20] = "."
            /\ iso.ok /\ ~iso.dt[9] /\ AllDigits(SubSeq(s, 21, Len(s)))
         THEN "%Y-%m-%dT%H:%M:%S.%f"
    ELSE IF StrPTime(s, "%d %b %Y").ok THEN "%d %b %Y"
    ELSE IF StrPTime(s, "%d %B %Y").ok THEN "%d %B %Y"
    ELSE IF MatchesTimeRe(s) THEN "time"
    ELSE "none"

DateFormatOf(s) == DateFormatGiven(s, FromIsoFormat(s, FALSE))

\* A Timestamp, or NaT outside datetime64[ns]
Stamp(y, m, d, h, mi, sec, ns) ==
    IF InNsBounds(y) THEN Ts(y, m, d, h, mi, sec, ns) ELSE NA

StampOfDt(dt, ns) == Stamp(dt[2], dt[3], dt[4], dt[5], dt[6], dt[7], ns)

\* Nanoseconds a fraction of up to nine digits denotes
FractionNs(frac) == DigitsToNat(frac) * Pow10(9 - Len(frac))

\* A time of day (fields p of hours and minutes, sec of seconds and fraction)
\* read on the date `today`
StampOfTime(p, sec, today) ==
    IF ValidTime(DigitsToNat(p[1]), DigitsToNat(p[2]), DigitsToNat(sec[1]))
       /\ Len(sec[2]) <= 6
    THEN Stamp(today[1], today[2], today[3], DigitsToNat(p[1]), DigitsToNat(p[2]),
               DigitsToNat(sec[1]), FractionNs(sec[2]))
    ELSE NA

TimeFields(p, today) ==
    StampOfTime(p, IF Len(p) = 3 THEN SplitBy(p[3], ".") \o << <<>> >>
                   ELSE << <<"0">>, <<>> >>, today)

\* The Timestamp of a string read in format f; a time of day is read on the
\* current date `today` (<<year, month, day>>).  NA (NaT) when the value is
\* no valid time or lies outside datetime64[ns].
ParseDateAs(s, f, today) ==
    IF f = "%Y" THEN Stamp(DigitsToNat(s), 1, 1, 0, 0, 0, 0)
    ELSE IF f \in {"%Y-%m-%d", "%Y-%m-%dT%H:%M:%S", "%Y-%m-%d %H:%M:%S",
                   "%Y-%m-%dT%H:%M:%S.%f"}
    THEN StampOfDt(FromIsoFormat(s, FALSE).dt,
                   IF Len(s) > 20 THEN FractionNs(SubSeq(s, 21, Len(s))) ELSE 0)
    ELSE IF f \in {"%d %b %Y", "%d %B %Y"} THEN StampOfDt(StrPTime(s, f).dt, 0)
    ELSE IF f = "time" THEN TimeFields(SplitBy(s, ":"), today)
    ELSE NA

\* Index of the first non-null element of a column, 0 when all are null
FirstNonNull(s) ==
    IF \E i \in 1..Len(s) : NotNA(s[i])
    THEN CHOOSE i \in 1..Len(s) : NotNA(s[i]) /\ \A j \in 1..(i - 1) : IsNA(s[j])
    ELSE 0

\* One element v (of format vfmt) under the format fmt guessed for the column
ParseElement(v, fmt, vfmt, today) ==
    IF IsNA(v) THEN NA
    ELSE IF fmt \in {"time", "none"} \/ vfmt = fmt THEN ParseDateAs(v, vfmt, today)
    ELSE NA

ToDatetimeAs(s, fmt, today) ==
    [i \in 1..Len(s) |-> ParseElement(s[i], fmt, DateFormatOf(s[i]), today)]

\* guess_datetime_format of the first non-null element (index k, 0: none)
FirstFormat(s, k) == IF k = 0 THEN "none" ELSE DateFormatOf(s[k])

\* pandas.to_datetime(s, errors="coerce") of pandas 2.x on a column of strings:
\* the format is guessed from the first non-null element and every element must
\* be in that format; when no format can be guessed (a time of day, a string
\* that is no date) each element is parsed on its own
ToDatetime(s, today) == ToDatetimeAs(s, FirstFormat(s, FirstNonNull(s)), today)

\* Timestamp.isoformat()
TsIsoFormat(ts) ==
    NatToDigits(ts[2], 4) \o <<"-">> \o NatToDigits(ts[3], 2) \o <<"-">>
    \o NatToDigits(ts[4], 2) \o <<"T">> \o NatToDigits(ts[5], 2) \o <<":">>
    \o NatToDigits(ts[6], 2) \o <<":">> \o NatToDigits(ts[7], 2)
    \o (IF ts[8] = 0 THEN <<>>
        ELSE IF ts[8] % 1000 = 0 THEN <<".">> \o NatToDigits(ts[8] \div 1000, 6)
        ELSE <<".">> \o NatToDigits(ts[8], 9))

\* The except branch of _to_iso when parse_to_iso8601_utc raised
IsoOrFallback(val, has_time, r) ==
    IF ~r.raised THEN r.out
    ELSE IF has_time
         THEN StrfDateTime(val[2], val[3], val[4], val[5], val[6], val[7])
         ELSE StrfDate(val[2], val[3], val[4])

\* handle_iso8601_dates._to_iso
_to_iso(val, has_time, strict) ==
    IF IsNA(val) THEN NA
    ELSE IsoOrFallback(val, has_time, parse_to_iso8601_utc(TsIsoFormat(val), strict))

\* s_for_date of handle_iso8601_dates for one value
DateCandidate(v) == ReplaceNullTokens(StrStripNA(AsTypeString(v)))

IsTimeOnly(v) == NotNA(v) /\ MatchesTimeRe(AsTypeStr(v))

\* (time_only_count / total_non_null) > 0.5
TimeOnlyVetoAbove(time_only_count, total_non_null) ==
    total_non_null > 0 /\ 2 * time_only_count > total_non_null

\* (time_only_count / total_non_null) >= 0.5
TimeOnlyVeto(time_only_count, total_non_null) ==
    total_non_null > 0 /\ 2 * time_only_count >= total_non_null

\* (parsed_ok / total_non_null) > 0.5
DateThresholdAbove(parsed_ok, total_non_null) ==
    total_non_null > 0 /\ 2 * parsed_ok > total_non_null

\* (parsed_ok / total_non_null) >= 0.5
DateThresholdMet(parsed_ok, total_non_null) ==
    total_non_null > 0 /\ 2 * parsed_ok >= total_non_null

\* has_time: some parsed value has a non-zero hour, minute or second
HasTime(parsed_dates) ==
    \E i \in 1..Len(parsed_dates) :
        /\ NotNA(parsed_dates[i])
        /\ \/ parsed_dates[i][5] # 0
           \/ parsed_dates[i][6] # 0
           \/ parsed_dates[i][7] # 0

\* parsed_dates.apply(_to_iso)
IsoColumn(parsed_dates, has_time, strict) ==
    [i \in 1..Len(parsed_dates) |-> _to_iso(parsed_dates[i], has_time, strict)]

\* Lines 158-202 of handle_iso8601_dates once to_datetime has run
DatesDecision(s_for_date, parsed_dates, strict) ==
    IF TimeOnlyVeto(CountIf(IsTimeOnly, s_for_date), CountIf(NotNA, s_for_date))
    THEN [ret |-> FALSE, vals |-> <<>>]
    ELSE IF DateThresholdMet(CountIf(NotNA, parsed_dates), CountIf(NotNA, s_for_date))
    THEN [ret |-> TRUE, vals |-> IsoColumn(parsed_dates, HasTime(parsed_dates), strict)]
    ELSE [ret |-> FALSE, vals |-> <<>>]

DatesOfCandidates(s_for_date, today, strict) ==
    DatesDecision(s_for_date, ToDatetime(s_for_date, today), strict)

\* handle_iso8601_dates(col, s, df_converted): [ret, vals]; when ret is TRUE
\* vals is the column written to df_converted[col], otherwise nothing is written
handle_iso8601_dates(s, today, strict) ==
    DatesOfCandidates(MapCol(DateCandidate, s), today, strict)

(***************************************************************************)
(* Inputs                                                                  *)
(***************************************************************************)
\* Longest column drawn from a pool of cells
MaxRows == 2

\* Longest runs of a threshold column: numeric cells, text cells, null cells
MaxGood == 9

MaxBad == 2

MaxNull == 2

\* Longest runs of a date column: times of day, dates
MaxTimes == 2

MaxDates == 2

\* Most columns of a table drawn with columns of several classifications
MaxCols == 2

Converters == {"csv", "xlsx", "json"}

\* Cells of every kind the classifier tells apart: null token, token inside
\* blanks, integer, float, text, time of day, ISO date, English date, year,
\* ISO datetime with nanoseconds
TypePool ==
    { <<"N", "A">>,
      <<" ", "N", "A", " ">>,
      <<"7">>,
      <<"1", ".", "5">>,
      <<"a", "b", "c">>,
      <<"1", "0", ":", "0", "0">>,
      <<"2", "0", "2", "3", "-", "0", "3", "-", "0", "1">>,
      <<"1", " ", "M", "a", "r", " ", "2", "0", "2", "3">>,
      <<"2", "0", "2", "3">>,
      <<"2", "0", "2", "3", "-", "0", "3", "-", "0", "1", "T", "1", "0", ":", "0", "0", ":", "0", "0", ".", "1", "2", "3", "4", "5", "6", "7", "8", "9">> }

\* Cells of the numeric coercer: null token, integer, float, thousands
\* separators, currency, percent, a lone currency sign, text, inner percent
NumPool ==
    { <<"N", "A">>,
      <<"7">>,
      <<"1", ".", "5">>,
      <<"1", "6", "6", ",", "0", "1", "2", ",", "2", "7", "6">>,
      <<"£", "1", ",", "0", "0", "0", ".", "5", "0">>,
      <<"2", "5", "%">>,
      <<"£">>,
      <<"a", "b", "c">>,
      <<"5", "%", "5">> }

\* The dates datetime.now() may return while a column is parsed
Todays == { <<2025, 1, 27>>, <<2026, 11, 1>> }

\* All columns of 1..n cells of a pool
ColumnsOf(pool, n) == UNION { [1..k -> pool] : k \in 1..n }

\* v repeated n times
Rep(v, n) == [i \in 1..n |-> v]

\* Columns made of g numeric cells, b text cells and n null tokens
ThresholdColumns ==
    { Rep(good, g) \o Rep(<<"a", "b", "c">>, b) \o Rep(<<"N", "A">>, n) :
        good \in { <<"7">>, <<"1", ".", "5">> },
        g \in 0..MaxGood, b \in 0..MaxBad, n \in 0..MaxNull } \ { <<>> }

\* Columns made of t times of day, d dates, b text cells and n null tokens,
\* the times first or the dates first
DateColumns ==
    { IF timesFirst
      THEN Rep(<<"1", "0", ":", "0", "0">>, t) \o Rep(date, d)
           \o Rep(<<"a", "b", "c">>, b) \o Rep(<<"N", "A">>, n)
      ELSE Rep(date, d) \o Rep(<<"1", "0", ":", "0", "0">>, t)
           \o Rep(<<"a", "b", "c">>, b) \o Rep(<<"N", "A">>, n) :
        date \in { <<"2", "0", "2", "3", "-", "0", "3", "-", "0", "1">>,
                   <<"1", " ", "M", "a", "r", " ", "2", "0", "2", "3">> },
        timesFirst \in BOOLEAN,
        t \in 0..MaxTimes, d \in 0..MaxDates, b \in 0..MaxBad, n \in 0..MaxNull }
    \ { <<>> }

\* An integer of 21 digits, above the int64 (and uint64) range
WideCell ==
    <<"1", "0", "0", "0", "0", "0", "0", "0", "0", "0", "0",
      "0", "0", "0", "0", "0", "0", "0", "0", "0", "0">>

\* Columns made of g integers above the int64 range, s small integers and n
\* null tokens
MagnitudeColumns ==
    { Rep(WideCell, g) \o Rep(<<"7">>, s) \o Rep(<<"N", "A">>, n) :
        g \in 1..MaxRows, s \in 0..1, n \in 0..1 }

\* One cell of every classification: null token, integer, float, text, date,
\* integer above the int64 range
MixPool ==
    { <<"N", "A">>, <<"7">>, <<"1", ".", "5">>, <<"a", "b", "c">>,
      <<"2", "0", "2", "3", "-", "0", "3", "-", "0", "1">>, WideCell }

\* Tables of 2..MaxCols columns of one length, each column one cell repeated
MixedTables ==
    UNION { [1..n -> { Rep(cell, k) : cell \in MixPool }] :
              n \in 2..MaxCols, k \in 1..MaxRows }

\* A JSON null (None) can stand in any cell of a JSON table
JsonColumns == ColumnsOf(TypePool \cup {NA}, MaxRows)

Columns(conv) ==
    ColumnsOf(TypePool, MaxRows) \cup ColumnsOf(NumPool, MaxRows) \cup ThresholdColumns
    \cup DateColumns \cup MagnitudeColumns
    \cup (IF conv = "json" THEN JsonColumns ELSE {})

\* The tables read from a source: one column of any content, or several
\* columns of one length
Tables(conv) == { <<c>> : c \in Columns(conv) } \cup MixedTables

NCols == Len(raw)

Unset == [kind |-> "unset", vals |-> <<>>]

(***************************************************************************)
(* The converters: convert_csv_to_parquet, _process_dataframe_and_write,   *)
(* convert_json_to_parquet                                                 *)
(***************************************************************************)
Init ==
    /\ converter \in Converters
    /\ strict_iso \in BOOLEAN
    /\ raw \in Tables(converter)
    /\ df_raw = raw
    /\ df_converted = [c \in 1..Len(raw) |-> Unset]
    /\ col = 1
    /\ pc = "read"
    /\ writes = [c \in 1..Len(raw) |-> 0]
    /\ numeric_tried = [c \in 1..Len(raw) |-> FALSE]
    /\ table = <<>>
    /\ date_str = <<>>
    /\ iso_result = [raised |-> FALSE, out |-> <<>>]
    /\ given = <<>>
    /\ IoIdle

\* handle_null_values(df_raw) of the CSV and spreadsheet converters
HandleNullValues ==
    /\ pc = "read"
    /\ converter \in {"csv", "xlsx"}
    /\ df_raw' = handle_null_values(df_raw)
    /\ pc' = "loop"
    /\ UNCHANGED <<converter, strict_iso, raw, df_converted, col, writes,
                   numeric_tried, table, date_str, iso_result, given, io_vars>>

\* convert_json_to_parquet goes from the records to the column loop:
\* s.where(pd.notna(s), pd.NA) leaves strings and makes every None pd.NA
JsonNormalize ==
    /\ pc = "read"
    /\ converter = "json"
    /\ pc' = "loop"
    /\ UNCHANGED <<converter, strict_iso, raw, df_raw, df_converted, col, writes,
                   numeric_tried, table, date_str, iso_result, given, io_vars>>

\* s.dropna().empty
AllNull(s) == \A i \in 1..Len(s) : IsNA(s[i])

\* The Text fallback for one value: trimmed, null tokens to pd.NA
TextCell(v) == ReplaceNullTokens(StrStrip(AsTypeStr(v)))

InLoop == pc = "loop" /\ col <= NCols

\* df_converted[col] = column; continue
WriteColumn(kind, vals, tried) ==
    /\ df_converted' = [df_converted EXCEPT ![col] = [kind |-> kind, vals |-> vals]]
    /\ writes' = [writes EXCEPT ![col] = @ + 1]
    /\ numeric_tried' = [numeric_tried EXCEPT ![col] = tried]
    /\ col' = col + 1
    /\ UNCHANGED <<converter, strict_iso, raw, df_raw, pc, table, date_str, iso_result, given, io_vars>>

\* A column of one null whatever the length of s
AllNullColumnOneCell(s) == <<NA>>

\* pd.Series([pd.NA] * len(s), dtype="string")
AllNullColumn(s) == Rep(NA, Len(s))

\* Loop body, first branch: the entire column is null
ColumnAllNull ==
    /\ InLoop
    /\ AllNull(df_raw[col])
    /\ WriteColumn("AllNull", AllNullColumn(df_raw[col]), FALSE)

\* Loop body, second branch: handle_iso8601_dates wrote the column
ColumnDate ==
    /\ InLoop
    /\ ~AllNull(df_raw[col])
    /\ \E today \in Todays :
          \E r \in {handle_iso8601_dates(df_raw[col], today, strict_iso)} :
              r.ret /\ WriteColumn("DateTime", r.vals, FALSE)

\* A loop body that goes to the numeric check without asking the date check
NotDateUnchecked(s) == TRUE

\* handle_iso8601_dates returned False (its return value does not depend on the date)
NotDate(s) == \A today \in Todays : ~handle_iso8601_dates(s, today, strict_iso).ret

\* Loop body, third branch: handle_numeric_column returned a series
ColumnNumeric ==
    /\ InLoop
    /\ ~AllNull(df_raw[col])
    /\ NotDate(df_raw[col])
    /\ \E n \in {handle_numeric_column(df_raw[col])} :
          n.kind \in {"Integer", "Float"} /\ WriteColumn(n.kind, n.vals, TRUE)

\* Loop body, third branch: astype('Int64') raised TypeError inside
\* handle_numeric_column; nothing catches it and the converter is left
\* without a table
ColumnNumericRaises ==
    /\ InLoop
    /\ ~AllNull(df_raw[col])
    /\ NotDate(df_raw[col])
    /\ handle_numeric_column(df_raw[col]).kind = "Raises"
    /\ pc' = "raised"
    /\ UNCHANGED <<converter, strict_iso, raw, df_raw, df_converted, col, writes,
                   numeric_tried, table, date_str, iso_result, given, io_vars>>

\* Loop body, last branch: the Text fallback
ColumnText ==
    /\ InLoop
    /\ ~AllNull(df_raw[col])
    /\ NotDate(df_raw[col])
    /\ handle_numeric_column(df_raw[col]).kind = "None"
    /\ WriteColumn("Text", MapCol(TextCell, df_raw[col]), TRUE)

\* pa.Table.from_pandas(df_converted) and pq.write_table
WriteTable ==
    /\ pc = "loop"
    /\ col > NCols
    /\ table' = df_converted
    /\ pc' = "done"
    /\ UNCHANGED <<converter, strict_iso, raw, df_raw, df_converted, col, writes,
                   numeric_tried, date_str, iso_result, given, io_vars>>

Next ==
    \/ HandleNullValues
    \/ JsonNormalize
    \/ ColumnAllNull
    \/ ColumnDate
    \/ ColumnNumeric
    \/ ColumnNumericRaises
    \/ ColumnText
    \/ WriteTable

Spec == Init /\ [][Next]_vars

(***************************************************************************)
(* The time utilities on their own: one call of parse_to_iso8601_utc       *)
(***************************************************************************)
\* Dates, times of day, fractions and UTC offsets a timestamp is written from
GivenDates ==
    { <<2025, 1, 27>>, <<2024, 2, 29>>, <<2024, 3, 1>>, <<2023, 12, 31>>,
      <<2024, 1, 1>>, <<1, 1, 1>>, <<9999, 12, 31>>, <<999, 6, 15>> }

GivenTimes == { <<0, 0, 0>>, <<11, 26, 6>>, <<23, 30, 0>>, <<0, 15, 0>> }

\* A fraction is its digits as written
GivenFractions ==
    { <<>>, <<"5">>, <<"1", "2", "3">>, <<"0", "0", "0", "5", "0", "0">>,
      <<"1", "2", "3", "4", "5", "6", "7", "8", "9">> }

\* No zone, a trailing Z, or an offset in minutes
GivenZones ==
    { <<"naive", 0>>, <<"Z", 0>>, <<"offset", 0>>, <<"offset", 60>>,
      <<"offset", -300>>, <<"offset", 330>>, <<"offset", -60>> }

\* A timestamp is <<shape, date, time, fraction, zone>>; the shapes are ISO
\* with a T, ISO with a space, an ISO date, and the human-readable formats
GivenStamps ==
    { <<sh, d, tm, fr, z>> : sh \in {"T", " "}, d \in GivenDates, tm \in GivenTimes,
                             fr \in GivenFractions, z \in GivenZones }
    \cup { <<sh, d, <<0, 0, 0>>, <<>>, <<"naive", 0>> >> :
              sh \in {"date", "%d %b %Y", "%d %B %Y", "%d/%m/%Y", "%d-%m-%Y"},
              d \in GivenDates }
    \cup { <<sh, d, tm, <<>>, <<"naive", 0>> >> :
              sh \in {"%d %b %Y %H:%M:%S", "%d %B %Y %H:%M:%S"},
              d \in GivenDates, tm \in GivenTimes }

\* Strings that are no timestamp
NoStamps == { <<>>, <<"a", "b", "c">>, <<"1", "0", ":", "0", "0">>, <<"Z">> }

WriteOffset(mins) ==
    (IF mins < 0 THEN <<"-">> ELSE <<"+">>)
    \o NatToDigits((IF mins < 0 THEN 0 - mins ELSE mins) \div 60, 2) \o <<":">>
    \o NatToDigits((IF mins < 0 THEN 0 - mins ELSE mins) % 60, 2)

WriteZone(z) ==
    IF z[1] = "naive" THEN <<>> ELSE IF z[1] = "Z" THEN <<"Z">> ELSE WriteOffset(z[2])

WriteClock(tm) ==
    NatToDigits(tm[1], 2) \o <<":">> \o NatToDigits(tm[2], 2) \o <<":">>
    \o NatToDigits(tm[3], 2)

\* The text of a timestamp
WriteStamp(g) ==
    IF g[1] \in {"T", " "}
    THEN NatToDigits(g[2][1], 4) \o <<"-">> \o NatToDigits(g[2][2], 2) \o <<"-">>
         \o NatToDigits(g[2][3], 2) \o <<g[1]>> \o WriteClock(g[3])
         \o (IF g[4] = <<>> THEN <<>> ELSE <<".">> \o g[4]) \o WriteZone(g[5])
    ELSE IF g[1] = "date"
    THEN NatToDigits(g[2][1], 4) \o <<"-">> \o NatToDigits(g[2][2], 2) \o <<"-">>
         \o NatToDigits(g[2][3], 2)
    ELSE IF g[1] = "%d/%m/%Y"
    THEN NatToDigits(g[2][3], 2) \o <<"/">> \o NatToDigits(g[2][2], 2) \o <<"/">>
         \o NatToDigits(g[2][1], 4)
    ELSE IF g[1] = "%d-%m-%Y"
    THEN NatToDigits(g[2][3], 2) \o <<"-">> \o NatToDigits(g[2][2], 2) \o <<"-">>
         \o NatToDigits(g[2][1], 4)
    ELSE NatToStr(g[2][3]) \o <<" ">>
         \o (IF g[1] \in {"%d %b %Y", "%d %b %Y %H:%M:%S"} THEN MonthAbbr[g[2][2]]
             ELSE MonthName[g[2][2]])
         \o <<" ">> \o NatToDigits(g[2][1], 4)
         \o (IF g[1] \in {"%d %b %Y %H:%M:%S", "%d %B %Y %H:%M:%S"}
             THEN <<" ">> \o WriteClock(g[3]) ELSE <<>>)

InitTime ==
    /\ converter = "csv"
    /\ strict_iso \in BOOLEAN
    /\ raw = <<>>
    /\ df_raw = <<>>
    /\ df_converted = <<>>
    /\ col = 1
    /\ pc = "call"
    /\ writes = <<>>
    /\ numeric_tried = <<>>
    /\ table = <<>>
    /\ \/ given \in GivenStamps /\ date_str = WriteStamp(given)
       \/ given = <<>> /\ date_str \in NoStamps
    /\ iso_result = [raised |-> FALSE, out |-> <<>>]
    /\ IoIdle

\* parse_to_iso8601_utc(date_str) returns
ParseReturns ==
    /\ pc = "call"
    /\ \E r \in {parse_to_iso8601_utc(date_str, strict_iso)} :
          ~r.raised /\ iso_result' = r
    /\ pc' = "returned"
    /\ UNCHANGED <<converter, strict_iso, raw, df_raw, df_converted, col, writes,
                   numeric_tried, table, date_str, given, io_vars>>

\* parse_to_iso8601_utc(date_str) raises ValueError
ParseRaises ==
    /\ pc = "call"
    /\ \E r \in {parse_to_iso8601_utc(date_str, strict_iso)} :
          r.raised /\ iso_result' = r
    /\ pc' = "raised"
    /\ UNCHANGED <<converter, strict_iso, raw, df_raw, df_converted, col, writes,
                   numeric_tried, table, date_str, given, io_vars>>

NextTime ==
    \/ ParseReturns
    \/ ParseRaises

SpecTime == InitTime /\ [][NextTime]_vars

(***************************************************************************)
(* JSON values (json.load) and the shape rules of json_to_parquet.py       *)
(***************************************************************************)
\* A JSON value is null, a number, a string, a list or an object whose keys
\* keep the order of the document (a Python dict)
JNull == <<"null">>

JNum(n) == <<"number", n>>

JStr(s) == <<"string", s>>

JList(items) == <<"list", items>>

JObj(keys, values) == <<"dict", keys, values>>

\* A text that json.load rejects
InvalidJson == <<"invalid">>

\* isinstance(v, list), isinstance(v, dict)
IsList(v) == v[1] = "list"

IsDict(v) == v[1] = "dict"

\* k in d
HasKey(d, k) == \E i \in 1..Len(d[2]) : d[2][i] = k

\* d[k]
Get(d, k) == d[3][CHOOSE i \in 1..Len(d[2]) : d[2][i] = k]

\* An object that has the key "error" and no wrapper key holding a list
IsErrorEnvelopeNoWrapper(o) ==
    /\ IsDict(o)
    /\ HasKey(o, "error")
    /\ \A k \in {"data", "results", "rows", "items"} : ~(HasKey(o, k) /\ IsList(Get(o, k)))

\* isinstance(obj, dict) and "error" in obj
IsErrorEnvelope(o) == IsDict(o) /\ HasKey(o, "error")

\* The wrapper keys, in the order the loop tries them
WrapperKeys == <<"data", "results", "rows", "items">>

\* The candidates of the wrapper loop that are in obj and hold a list
WrapperCandidates(o) ==
    { i \in 1..Len(WrapperKeys) :
        HasKey(o, WrapperKeys[i]) /\ IsList(Get(o, WrapperKeys[i])) }

\* The last candidate returns its list
LastWrapper(o) ==
    Get(o, WrapperKeys[CHOOSE i \in WrapperCandidates(o) :
                          \A j \in WrapperCandidates(o) : i >= j])[2]

\* The first candidate returns its list
FirstWrapper(o) ==
    Get(o, WrapperKeys[CHOOSE i \in WrapperCandidates(o) :
                          \A j \in WrapperCandidates(o) : i <= j])[2]

\* all(isinstance(v, list) for v in obj.values()) and obj, and the set of
\* the lengths has one element
IsColumnar(o) ==
    /\ o[2] # <<>>
    /\ \A i \in 1..Len(o[3]) : IsList(o[3][i])
    /\ \A i, j \in 1..Len(o[3]) : Len(o[3][i][2]) = Len(o[3][j][2])

\* A transpose that gives every row the first element of each list
TransposeFirstRow(o) ==
    [i \in 1..Len(o[3][1][2]) |->
        JObj(o[2], [j \in 1..Len(o[2]) |-> o[3][j][2][1]])]

\* [{k: obj[k][i] for k in keys} for i in range(n)]
Transpose(o) ==
    [i \in 1..Len(o[3][1][2]) |->
        JObj(o[2], [j \in 1..Len(o[2]) |-> o[3][j][2][i]])]

\* _normalize_json_to_records(obj): the row list
_normalize_json_to_records(o) ==
    IF IsList(o) THEN o[2]
    ELSE IF IsDict(o)
    THEN IF WrapperCandidates(o) # {} THEN FirstWrapper(o)
         ELSE IF IsColumnar(o) THEN Transpose(o)
         ELSE <<o>>
    ELSE <<>>

\* A flattening that keeps a nested dict as one value under its key
KeepNested(v, path) == << <<path, v>> >>

\* A column name is the path of keys pd.json_normalize joins with "."
\* _normalise_json: a nested dict becomes one entry <<path, value>> per leaf
RECURSIVE _normalise_json(_, _)
RECURSIVE NormaliseEntries(_, _, _)
NormaliseEntries(d, path, i) ==
    IF i > Len(d[2]) THEN <<>>
    ELSE _normalise_json(d[3][i], Append(path, d[2][i]))
         \o NormaliseEntries(d, path, i + 1)

_normalise_json(v, path) ==
    IF IsDict(v) THEN NormaliseEntries(v, path, 1) ELSE << <<path, v>> >>

\* _normalise_json_ordered: the entries that are no dicts first, then the
\* flattened dicts
RECURSIVE TopEntries(_, _)
TopEntries(d, i) ==
    IF i > Len(d[2]) THEN <<>>
    ELSE (IF IsDict(d[3][i]) THEN <<>> ELSE << <<(<<d[2][i]>>), d[3][i]>> >>)
         \o TopEntries(d, i + 1)

RECURSIVE NestedEntries(_, _)
NestedEntries(d, i) ==
    IF i > Len(d[2]) THEN <<>>
    ELSE (IF IsDict(d[3][i]) THEN _normalise_json(d[3][i], <<d[2][i]>>) ELSE <<>>)
         \o NestedEntries(d, i + 1)

\* _simple_json_normalize on one row: a row that is no dict has no entry
SimpleJsonNormalize(row) ==
    IF IsDict(row) THEN TopEntries(row, 1) \o NestedEntries(row, 1) ELSE <<>>

\* The columns of DataFrame(rows): the names in the order they first appear
RECURSIVE AddNames(_, _)
AddNames(names, entries) ==
    IF entries = <<>> THEN names
    ELSE AddNames(IF \E i \in 1..Len(names) : names[i] = Head(entries)[1]
                  THEN names ELSE Append(names, Head(entries)[1]),
                  Tail(entries))

RECURSIVE FrameColumns(_, _)
FrameColumns(names, rows) ==
    IF rows = <<>> THEN names
    ELSE FrameColumns(AddNames(names, Head(rows)), Tail(rows))

\* The value of a row in a column (the last entry of that name), or NaN
Missing == <<"nan">>

EntryOf(entries, name) ==
    IF \E i \in 1..Len(entries) : entries[i][1] = name
    THEN entries[CHOOSE i \in 1..Len(entries) :
                    /\ entries[i][1] = name
                    /\ \A j \in (i + 1)..Len(entries) : entries[j][1] # name][2]
    ELSE Missing

\* json.dumps(v) with the default separators
RECURSIVE JsonDumps(_)
RECURSIVE DumpItems(_, _)
RECURSIVE DumpPairs(_, _)
DumpItems(items, i) ==
    IF i > Len(items) THEN <<>>
    ELSE (IF i > 1 THEN <<",", " ">> ELSE <<>>) \o JsonDumps(items[i])
         \o DumpItems(items, i + 1)

DumpPairs(d, i) ==
    IF i > Len(d[2]) THEN <<>>
    ELSE (IF i > 1 THEN <<",", " ">> ELSE <<>>)
         \o <<"\"", d[2][i], "\"", ":", " ">> \o JsonDumps(d[3][i])
         \o DumpPairs(d, i + 1)

JsonDumps(v) ==
    IF v = JNull THEN <<"n", "u", "l", "l">>
    ELSE IF v[1] = "number" THEN NatToStr(v[2])
    ELSE IF v[1] = "string" THEN <<"\"">> \o v[2] \o <<"\"">>
    ELSE IF IsList(v) THEN <<"[">> \o DumpItems(v[2], 1) \o <<"]">>
    ELSE <<"{">> \o DumpPairs(v, 1) \o <<"}">>

\* Lines 85-87 on one value of df_raw[col]: lists and dicts are dumped, None
\* and NaN become pd.NA; a number is read through its text by the classifier
JsonCell(v) ==
    IF v = JNull \/ v = Missing THEN NA
    ELSE IF v[1] = "number" THEN NatToStr(v[2])
    ELSE IF v[1] = "string" THEN v[2]
    ELSE JsonDumps(v)

\* The column of a name over the flattened rows
JsonColumn(flat, name) == [i \in 1..Len(flat) |-> JsonCell(EntryOf(flat[i], name))]

(***************************************************************************)
(* The column loop as one function of a column                             *)
(***************************************************************************)
\* The loop body after the date check refused the column
ClassifyNumericOrText(s, n) ==
    IF n.kind = "None" THEN [kind |-> "Text", vals |-> MapCol(TextCell, s)] ELSE n

\* The loop body after the all-null check
ClassifyDateOrLater(s, d) ==
    IF d.ret THEN [kind |-> "DateTime", vals |-> d.vals]
    ELSE ClassifyNumericOrText(s, handle_numeric_column(s))

\* The loop body on one column: [kind, vals], kind "Raises" when
\* handle_numeric_column raised
ClassifyColumn(s, today, strict) ==
    IF AllNull(s) THEN [kind |-> "AllNull", vals |-> AllNullColumn(s)]
    ELSE ClassifyDateOrLater(s, handle_iso8601_dates(s, today, strict))

\* df_converted of convert_json_to_parquet: one typed column per column of
\* df_raw = pd.json_normalize(records)
JsonTableOf(flat, names, today, strict) ==
    [c \in 1..Len(names) |->
        [name |-> names[c],
         col |-> ClassifyColumn(JsonColumn(flat, names[c]), today, strict)]]

JsonTable(recs, today, strict) ==
    JsonTableOf(MapCol(SimpleJsonNormalize, recs),
                FrameColumns(<<>>, MapCol(SimpleJsonNormalize, recs)), today, strict)

(***************************************************************************)
(* JSON documents given to convert_json_to_parquet                         *)
(***************************************************************************)
\* Longest list of a document
MaxLen == 2

\* Sequences of 0..n elements of a set
SeqsUpTo(S, n) == UNION { [1..k -> S] : k \in 0..n }

\* Rows found inside lists: a flat record, a record with a nested object, a
\* record with a nested object and a nested list, an empty record, a value
\* that is no record
RowPool ==
    { JObj(<<"a">>, <<JNum(1)>>),
      JObj(<<"a">>, << JObj(<<"b">>, <<JNum(1)>>) >>),
      JObj(<<"a", "b">>, << JObj(<<"b">>, <<JNum(1)>>),
                            JList(<<JNum(1), JObj(<<"a">>, <<JNull>>)>>) >>),
      JObj(<<>>, <<>>),
      JNum(1) }

\* Values of the keys of a top-level object: scalars, lists of scalars,
\* a list of one record, a nested object, an empty nested object
ObjValuePool ==
    { JNum(1), JNull }
    \cup { JList(l) : l \in SeqsUpTo({JNum(1), JStr(<<"x">>)}, MaxLen) }
    \cup { JList(<<JObj(<<"a">>, <<JNum(1)>>)>>),
           JObj(<<"b">>, <<JNum(1)>>),
           JObj(<<>>, <<>>) }

KeyPool == {"error", "data", "results", "rows", "items", "a", "b"}

\* Top-level objects of one key, or of two keys in either order
Objects ==
    { JObj(<<k>>, <<v>>) : k \in KeyPool, v \in ObjValuePool }
    \cup { JObj(<<k[1], k[2]>>, <<v[1], v[2]>>) :
             k \in { kk \in KeyPool \X KeyPool : kk[1] # kk[2] },
             v \in ObjValuePool \X ObjValuePool }

JsonDocuments ==
    { InvalidJson, JNum(4), JStr(<<"x">>), JNull, JObj(<<>>, <<>>) }
    \cup { JList(l) : l \in SeqsUpTo(RowPool, MaxLen) }
    \cup Objects

(***************************************************************************)
(* convert_json_to_parquet                                                 *)
(***************************************************************************)
Returned(v) == <<"return", v>>

Raised(e) == <<"raise", e>>

InitJson ==
    /\ converter = "json"
    /\ strict_iso \in BOOLEAN
    /\ raw = <<>>
    /\ df_raw = <<>>
    /\ df_converted = <<>>
    /\ col = 1
    /\ pc = "open"
    /\ writes = <<>>
    /\ numeric_tried = <<>>
    /\ table = <<>>
    /\ date_str = <<>>
    /\ iso_result = [raised |-> FALSE, out |-> <<>>]
    /\ given = <<>>
    /\ obj \in JsonDocuments
    /\ records = <<>>
    /\ ret = <<>>
    /\ fs = {}
    /\ uuid_names = FALSE
    /\ output_path = "file"
    /\ uuids = 0
    /\ sheet_at = 1
    /\ run = 1
    /\ out_dir = <<>>
    /\ written_paths = <<>>
    /\ SigIdle
    /\ BatchIdle
    /\ DedupeIdle

\* json.load raises JSONDecodeError: raise ValueError(f"Invalid JSON: {e}")
JsonLoadFails ==
    /\ pc = "open"
    /\ obj = InvalidJson
    /\ ret' = Raised("ValueError")
    /\ pc' = "raised"
    /\ UNCHANGED <<table_vars, obj, records, fs, uuid_names, output_path, uuids,
                   sheet_at, run, out_dir, written_paths, sig_vars,
                   pipeline_vars>>

\* isinstance(obj, dict) and "error" in obj: return None
JsonErrorEnvelope ==
    /\ pc = "open"
    /\ obj # InvalidJson
    /\ IsErrorEnvelope(obj)
    /\ ret' = Returned(<<"None">>)
    /\ pc' = "returned"
    /\ UNCHANGED <<table_vars, obj, records, fs, uuid_names, output_path, uuids,
                   sheet_at, run, out_dir, written_paths, sig_vars,
                   pipeline_vars>>

\* records = _normalize_json_to_records(obj)
JsonNormalizeRecords ==
    /\ pc = "open"
    /\ obj # InvalidJson
    /\ ~IsErrorEnvelope(obj)
    /\ records' = _normalize_json_to_records(obj)
    /\ pc' = "records"
    /\ UNCHANGED <<table_vars, obj, ret, fs, uuid_names, output_path, uuids,
                   sheet_at, run, out_dir, written_paths, sig_vars,
                   pipeline_vars>>

\* if not records: an empty parquet is written and its path returned
JsonWriteEmpty ==
    /\ pc = "records"
    /\ records = <<>>
    /\ fs' = fs \cup { <<(<<"output_parquet">>), <<>>>> }
    /\ ret' = Returned(<<"output_parquet">>)
    /\ pc' = "returned"
    /\ UNCHANGED <<table_vars, obj, records, uuid_names, output_path, uuids,
                   sheet_at, run, out_dir, written_paths, sig_vars,
                   pipeline_vars>>

\* The table of the records is written and its path returned, unless a
\* column raised
JsonWriteOrRaise(t) ==
    IF \E c \in 1..Len(t) : t[c].col.kind = "Raises"
    THEN /\ ret' = Raised("TypeError")
         /\ pc' = "raised"
         /\ UNCHANGED <<table, fs>>
    ELSE /\ table' = t
         /\ fs' = fs \cup { <<(<<"output_parquet">>), t>> }
         /\ ret' = Returned(<<"output_parquet">>)
         /\ pc' = "returned"

\* Lines 77-115: json_normalize, the column loop and pq.write_table
JsonConvertRecords ==
    /\ pc = "records"
    /\ records # <<>>
    /\ \E today \in Todays :
          \E t \in {JsonTable(records, today, strict_iso)} : JsonWriteOrRaise(t)
    /\ UNCHANGED <<converter, strict_iso, raw, df_raw, df_converted, col, writes,
                   numeric_tried, date_str, iso_result, given, obj, records,
                   uuid_names, output_path, uuids, sheet_at, run, out_dir,
                   written_paths, sig_vars,
                   pipeline_vars>>

NextJson ==
    \/ JsonLoadFails
    \/ JsonErrorEnvelope
    \/ JsonNormalizeRecords
    \/ JsonWriteEmpty
    \/ JsonConvertRecords

SpecJson == InitJson /\ [][NextJson]_vars

(***************************************************************************)
(* convert_spreadsheet_to_parquet (spreadsheet_to_parquet.py)              *)
(***************************************************************************)
\* The characters re.sub(r"[^A-Za-z0-9._-]", "_", safe) keeps
SafeChars ==
    { "A", "B", "C", "D", "E", "F", "G", "H", "I", "J", "K", "L", "M",
      "N", "O", "P", "Q", "R", "S", "T", "U", "V", "W", "X", "Y", "Z",
      "a", "b", "c", "d", "e", "f", "g", "h", "i", "j", "k", "l", "m",
      "n", "o", "p", "q", "r", "s", "t", "u", "v", "w", "x", "y", "z",
      "0", "1", "2", "3", "4", "5", "6", "7", "8", "9", ".", "_", "-" }

\* The sanitised characters: separators, blanks and every other character
\* that is not kept become "_"
SafeName(name) ==
    [i \in 1..Len(name) |-> IF name[i] \in SafeChars THEN name[i] ELSE "_"]

\* _safe_sheet_filename(name)
_safe_sheet_filename(name) ==
    IF SafeName(name) = <<>> THEN <<"s", "h", "e", "e", "t">> ELSE SafeName(name)

\* f"{safe_name}.parquet" for a sheet name, and for the n-th uuid4 drawn
NamedFile(name) == <<"name", _safe_sheet_filename(name)>>

UuidFile(n) == <<"uuid", n>>

\* _process_dataframe_and_write up to the table: handle_null_values, then
\* the column loop
SheetTable(df, today, strict) ==
    [c \in 1..Len(df) |-> ClassifyColumn(handle_null_values(df)[c], today, strict)]

\* pq.write_table(table, str(out_path)): the file at the path is replaced
WriteFile(files, path, content) ==
    { f \in files : f[1] # path } \cup { <<path, content>> }

\* Most sheets of a workbook, and conversions into one destination
MaxSheets == 2

MaxRuns == 2

\* Sheet names: plain, with a blank, with an underscore, with a percent sign
SheetNames ==
    { <<"Q", "1">>, <<"Q", " ", "1">>, <<"Q", "_", "1">>, <<"Q", "%", "1">> }

\* The raw tables of the sheets: an integer and a null token, a text, an
\* integer above the int64 range (its conversion raises)
SheetTables ==
    { << <<(<<"7">>), <<"N", "A">>>> >>, << <<(<<"a", "b", "c">>)>> >>, << <<WideCell>> >> }

\* Workbooks: 1..MaxSheets sheets [name, df] of distinct names
Workbooks ==
    { w \in UNION { [1..n -> [name : SheetNames, df : SheetTables]] : n \in 1..MaxSheets } :
        \A i, j \in 1..Len(w) : w[i].name = w[j].name => i = j }

\* The destination given: an existing directory ("dir"), a path that does
\* not exist and has no suffix ("nosuffix"), a file path with a suffix ("file")
OutputPaths == {"dir", "nosuffix", "file"}

\* What the caller may have set up for SIGALRM before the call: nothing, or
\* a handler of its own with an alarm that is due after the call
CallerSignals ==
    { [handler |-> "SIG_DFL", alarm |-> "none"],
      [handler |-> "caller_handler", alarm |-> "caller"] }

InitSheets ==
    /\ converter = "xlsx"
    /\ strict_iso \in BOOLEAN
    /\ raw = <<>>
    /\ df_raw = <<>>
    /\ df_converted = <<>>
    /\ col = 1
    /\ pc = "install"
    /\ writes = <<>>
    /\ numeric_tried = <<>>
    /\ table = <<>>
    /\ date_str = <<>>
    /\ iso_result = [raised |-> FALSE, out |-> <<>>]
    /\ given = <<>>
    /\ obj \in Workbooks
    /\ records = <<>>
    /\ ret = <<>>
    /\ fs = {}
    /\ uuid_names \in BOOLEAN
    /\ output_path \in OutputPaths
    /\ uuids = 0
    /\ sheet_at = 1
    /\ run = 1
    /\ out_dir = <<>>
    /\ written_paths = [r \in 1..MaxRuns |-> <<>>]
    /\ caller_sig \in CallerSignals
    /\ handler = caller_sig.handler
    /\ alarm = caller_sig.alarm
    /\ read = "none"
    /\ BatchIdle
    /\ DedupeIdle

\* What the sheet steps leave alone besides the signal state
sheet_frame == <<table_vars, obj, records, fs, uuid_names, output_path, uuids,
                 sheet_at, out_dir, run, written_paths, pipeline_vars>>

\* Line 126: signal.signal(signal.SIGALRM, timeout_handler)
InstallHandler ==
    /\ pc = "install"
    /\ handler' = "timeout_handler"
    /\ pc' = "arm"
    /\ UNCHANGED <<sheet_frame, ret, alarm, caller_sig, read>>

\* Line 127: signal.alarm(FILE_READ_TIMEOUT) replaces the pending alarm
ArmAlarm ==
    /\ pc = "arm"
    /\ alarm' = "read"
    /\ read' = "running"
    /\ pc' = "read_excel"
    /\ UNCHANGED <<sheet_frame, ret, handler, caller_sig>>

\* Lines 131-133: pd.read_excel returns the sheets; the try block is not
\* left yet
ReadExcelReturns ==
    /\ pc = "read_excel"
    /\ read' = "done"
    /\ pc' = "try_end"
    /\ UNCHANGED <<sheet_frame, ret, handler, alarm, caller_sig>>

\* The try block is left without an exception: the finally block starts
LeaveTry ==
    /\ pc = "try_end"
    /\ pc' = "finally"
    /\ UNCHANGED <<sheet_frame, ret, sig_vars>>

\* Lines 137-138 on the normal path: signal.alarm(0)
CancelAlarm ==
    /\ pc = "finally"
    /\ alarm' = "none"
    /\ pc' = "len_sheets"
    /\ UNCHANGED <<sheet_frame, ret, handler, caller_sig, read>>

\* SIGALRM is delivered inside the try block, during read_excel or after it
\* returned: timeout_handler raises TimeoutException (lines 122-123), which
\* line 134 catches
AlarmInTry ==
    /\ pc \in {"read_excel", "try_end"}
    /\ alarm = "read"
    /\ alarm' = "none"
    /\ read' = IF pc = "read_excel" THEN "abandoned" ELSE read
    /\ pc' = "except"
    /\ UNCHANGED <<sheet_frame, ret, handler, caller_sig>>

\* SIGALRM is delivered inside the finally block, before signal.alarm(0)
\* has been called: timeout_handler raises where no except clause is
AlarmInFinally ==
    /\ pc = "finally"
    /\ alarm = "read"
    /\ alarm' = "none"
    /\ ret' = Raised("TimeoutException")
    /\ pc' = "raised"
    /\ UNCHANGED <<sheet_frame, handler, caller_sig, read>>

\* Lines 134-138: print, return None; the finally block calls signal.alarm(0)
ReadTimesOut ==
    /\ pc = "except"
    /\ alarm' = "none"
    /\ ret' = Returned(<<"None">>)
    /\ pc' = "returned"
    /\ UNCHANGED <<sheet_frame, handler, caller_sig, read>>

\* read_excel returned several sheets: out_dir is output_path, or a fresh
\* uuid below it
ReadManySheets ==
    /\ pc = "len_sheets"
    /\ Len(obj) > 1
    /\ out_dir' = IF uuid_names THEN <<UuidFile(uuids + 1)>> ELSE <<>>
    /\ uuids' = IF uuid_names THEN uuids + 1 ELSE uuids
    /\ sheet_at' = 1
    /\ pc' = "sheets"
    /\ UNCHANGED <<table_vars, obj, records, ret, fs, uuid_names, output_path, run,
                   written_paths, sig_vars,
                   pipeline_vars>>

\* The sheet's table is written at the path, unless a column raised
ProcessAndWrite(path, name, t) ==
    IF \E c \in 1..Len(t) : t[c].kind = "Raises"
    THEN /\ ret' = Raised("TypeError")
         /\ pc' = "raised"
         /\ UNCHANGED <<fs, written_paths>>
    ELSE /\ fs' = WriteFile(fs, path, [sheet |-> name, table |-> t])
         /\ written_paths' = [written_paths EXCEPT ![run] = Append(@, path)]

\* Loop body of the sheet loop
WriteSheet ==
    /\ pc = "sheets"
    /\ sheet_at <= Len(obj)
    /\ \E today \in Todays :
          \E t \in {SheetTable(obj[sheet_at].df, today, strict_iso)} :
              /\ ProcessAndWrite(
                     Append(out_dir, IF uuid_names THEN UuidFile(uuids + 1)
                                     ELSE NamedFile(obj[sheet_at].name)),
                     obj[sheet_at].name, t)
              /\ (\A c \in 1..Len(t) : t[c].kind # "Raises") => UNCHANGED <<ret, pc>>
    /\ uuids' = IF uuid_names THEN uuids + 1 ELSE uuids
    /\ sheet_at' = sheet_at + 1
    /\ UNCHANGED <<table_vars, obj, records, uuid_names, output_path, run, out_dir, sig_vars,
                   pipeline_vars>>

\* return out_dir
ReturnOutDir ==
    /\ pc = "sheets"
    /\ sheet_at > Len(obj)
    /\ ret' = Returned(out_dir)
    /\ pc' = "returned"
    /\ UNCHANGED <<table_vars, obj, records, fs, uuid_names, output_path, uuids,
                   sheet_at, out_dir, run, written_paths, sig_vars,
                   pipeline_vars>>

\* One sheet, and output_path is or becomes a directory: the file is put in it
WriteSingleInDir ==
    /\ pc = "len_sheets"
    /\ Len(obj) = 1
    /\ output_path \in {"dir", "nosuffix"}
    /\ \E today \in Todays :
          \E t \in {SheetTable(obj[1].df, today, strict_iso)} :
              /\ ProcessAndWrite(
                     <<IF uuid_names THEN UuidFile(uuids + 1) ELSE NamedFile(obj[1].name)>>,
                     obj[1].name, t)
              /\ (\A c \in 1..Len(t) : t[c].kind # "Raises") =>
                     /\ ret' = Returned(<<IF uuid_names THEN UuidFile(uuids + 1)
                                          ELSE NamedFile(obj[1].name)>>)
                     /\ pc' = "returned"
    /\ uuids' = IF uuid_names THEN uuids + 1 ELSE uuids
    /\ UNCHANGED <<table_vars, obj, records, uuid_names, output_path, sheet_at, run,
                   out_dir, sig_vars,
                   pipeline_vars>>

\* One sheet, and output_path is a file path: the file is written there
WriteSingleToFile ==
    /\ pc = "len_sheets"
    /\ Len(obj) = 1
    /\ output_path = "file"
    /\ \E today \in Todays :
          \E t \in {SheetTable(obj[1].df, today, strict_iso)} :
              /\ ProcessAndWrite(<<>>, obj[1].name, t)
              /\ (\A c \in 1..Len(t) : t[c].kind # "Raises") =>
                     /\ ret' = Returned(<<>>)
                     /\ pc' = "returned"
    /\ UNCHANGED <<table_vars, obj, records, uuid_names, output_path, uuids, sheet_at,
                   run, out_dir, sig_vars,
                   pipeline_vars>>

\* The caller converts the workbook into the same destination once more
ConvertAgain ==
    /\ pc = "returned"
    /\ run < MaxRuns
    /\ run' = run + 1
    /\ pc' = "install"
    /\ ret' = <<>>
    /\ sheet_at' = 1
    /\ out_dir' = <<>>
    /\ caller_sig' = [handler |-> handler, alarm |-> alarm]
    /\ read' = "none"
    /\ UNCHANGED <<table_vars, obj, records, fs, uuid_names, output_path, uuids,
                   written_paths, handler, alarm, pipeline_vars>>

NextSheets ==
    \/ InstallHandler
    \/ ArmAlarm
    \/ ReadExcelReturns
    \/ LeaveTry
    \/ CancelAlarm
    \/ AlarmInTry
    \/ AlarmInFinally
    \/ ReadTimesOut
    \/ ReadManySheets
    \/ WriteSheet
    \/ ReturnOutDir
    \/ WriteSingleInDir
    \/ WriteSingleToFile
    \/ ConvertAgain

SpecSheets == InitSheets /\ [][NextSheets]_vars

(***************************************************************************)
(* pq.write_table(table, str(output_parquet)): the write of the converters *)
(***************************************************************************)
\* The destination path handed to pq.write_table
OutputParquet == <<"output_parquet">>

\* A parquet file as a reader finds it: the column chunks written so far,
\* and the footer, which the writer appends when it closes the file
ParquetFile(chunks, footer) == [chunks |-> chunks, footer |-> footer]

\* The table written by an earlier conversion into the same destination
EarlierTable == <<[kind |-> "Text", vals |-> <<(<<"o", "l", "d">>)>>]>>

\* The tables a converter hands to pq.write_table: the classified columns
\* of the tables of several columns
ConvertedTables ==
    { t \in { SheetTable(df, today, FALSE) : df \in MixedTables, today \in Todays } :
        \A c \in 1..Len(t) : t[c].kind # "Raises" }

InitWrite ==
    /\ converter \in Converters
    /\ strict_iso = FALSE
    /\ raw = <<>>
    /\ df_raw = <<>>
    /\ df_converted \in ConvertedTables
    /\ col = 1
    /\ pc = "write_table"
    /\ writes = <<>>
    /\ numeric_tried = <<>>
    /\ table = <<>>
    /\ date_str = <<>>
    /\ iso_result = [raised |-> FALSE, out |-> <<>>]
    /\ given = <<>>
    /\ obj = <<>>
    /\ records = <<>>
    /\ ret = <<>>
    /\ fs \in { {}, { <<OutputParquet, ParquetFile(EarlierTable, TRUE)>> } }
    /\ uuid_names = FALSE
    /\ output_path = "file"
    /\ uuids = 0
    /\ sheet_at = 1
    /\ run = 1
    /\ out_dir = <<>>
    /\ written_paths = <<>>
    /\ SigIdle
    /\ BatchIdle
    /\ DedupeIdle

\* What the steps of the write leave alone
write_frame == <<converter, strict_iso, raw, df_raw, df_converted, writes,
                 numeric_tried, date_str, iso_result, given, obj, records,
                 uuid_names, output_path, uuids, sheet_at, run, out_dir,
                 written_paths, sig_vars, pipeline_vars>>

\* pq.write_table opens the destination path itself for writing: the file
\* is created there, or the earlier file is truncated
OpenOutput ==
    /\ pc = "write_table"
    /\ fs' = WriteFile(fs, OutputParquet, ParquetFile(<<>>, FALSE))
    /\ table' = df_converted
    /\ pc' = "row_group"
    /\ UNCHANGED <<write_frame, col, ret>>

\* The chunk of the next column is written into the file at the destination
WriteColumnChunk ==
    /\ pc = "row_group"
    /\ col <= Len(table)
    /\ fs' = WriteFile(fs, OutputParquet, ParquetFile(SubSeq(table, 1, col), FALSE))
    /\ col' = col + 1
    /\ UNCHANGED <<write_frame, table, pc, ret>>

\* The writer is closed: the footer is written, and the converter returns
\* output_parquet
CloseWriter ==
    /\ pc = "row_group"
    /\ col > Len(table)
    /\ fs' = WriteFile(fs, OutputParquet, ParquetFile(table, TRUE))
    /\ ret' = Returned(OutputParquet)
    /\ pc' = "returned"
    /\ UNCHANGED <<write_frame, table, col>>

\* The process is killed during the write: the files stay as they are
Crash ==
    /\ pc \in {"write_table", "row_group"}
    /\ pc' = "crashed"
    /\ UNCHANGED <<write_frame, table, col, ret, fs>>

NextWrite ==
    \/ OpenOutput
    \/ WriteColumnChunk
    \/ CloseWriter
    \/ Crash

SpecWrite == InitWrite /\ [][NextWrite]_vars

(***************************************************************************)
(* One source converted twice, at two times                                *)
(***************************************************************************)
\* What convert_csv_to_parquet / _process_dataframe_and_write do with the
\* table df when datetime.now() is on the date today: the written table is
\* returned, or the TypeError of a column leaves the function
ConversionOutcome(df, today, strict) ==
    IF \E c \in 1..Len(df) : SheetTable(df, today, strict)[c].kind = "Raises"
    THEN Raised("TypeError")
    ELSE Returned(SheetTable(df, today, strict))

InitTwice ==
    /\ converter \in {"csv", "xlsx"}
    /\ strict_iso \in BOOLEAN
    /\ raw \in Tables(converter)
    /\ df_raw = raw
    /\ df_converted = <<>>
    /\ col = 1
    /\ pc = "idle"
    /\ writes = <<>>
    /\ numeric_tried = <<>>
    /\ table = <<>>
    /\ date_str = <<>>
    /\ iso_result = [raised |-> FALSE, out |-> <<>>]
    /\ given = <<>>
    /\ obj = <<>>
    /\ records = <<>>
    /\ ret = <<>>
    /\ fs = {}
    /\ uuid_names = FALSE
    /\ output_path = "file"
    /\ uuids = 0
    /\ sheet_at = 1
    /\ run = 1
    /\ out_dir = <<>>
    /\ written_paths = <<>>
    /\ SigIdle
    /\ BatchIdle
    /\ DedupeIdle

\* The source is converted, on one of the dates: the first time, or once more
ConvertSource ==
    /\ pc = "idle"
    /\ run <= MaxRuns
    /\ \E today \in Todays : ret' = ConversionOutcome(raw, today, strict_iso)
    /\ run' = run + 1
    /\ UNCHANGED <<converter, strict_iso, raw, df_raw, df_converted, col, pc, writes,
                   numeric_tried, table, date_str, iso_result, given, obj, records,
                   fs, uuid_names, output_path, uuids, sheet_at, out_dir,
                   written_paths, sig_vars, pipeline_vars>>

NextTwice == ConvertSource

SpecTwice == InitTwice /\ [][NextTwice]_vars

(***************************************************************************)
(* format_records and its partitions (assets/processing/assets.py)         *)
(***************************************************************************)
\* BATCH_SIZE (1000 in the module) and default_parts (100), scaled down
BATCH_SIZE == 2

default_parts == 1

\* Longest list of deduplicated files
MaxFiles == 3

\* What the loop body does with a metadata file: a row is built ("row";
\* "row_odd": its metadata holds a number as source, which the row keeps),
\* the format is unsupported, the data file is missing or cannot be
\* converted, the file is skipped (empty text), or the body raises
FileKinds == {"row", "row_odd", "unsupported", "no_data_file", "skipped", "raises"}

\* The lists deduplicate_folder may write: metadata files only
FileLists == UNION { [1..n -> FileKinds] : n \in 0..MaxFiles }

\* math.ceil(total / batch_size) with floor division in its place
FloorDiv(total, batch_size) == total \div batch_size

\* math.ceil(total / batch_size)
CeilDiv(total, batch_size) == (total + batch_size - 1) \div batch_size

\* _build_partitions_def with n_parts rounded down
BuildPartitionsFloor(nd) ==
    IF nd.exists
    THEN IF Len(nd.lines) = 0 THEN {0}
         ELSE 0..(FloorDiv(Len(nd.lines), BATCH_SIZE) - 1)
    ELSE 0..(default_parts - 1)

\* _build_partitions_def(): the keys, as numbers
_build_partitions_def(nd) ==
    IF nd.exists
    THEN IF Len(nd.lines) = 0 THEN {0}
         ELSE 0..(CeilDiv(Len(nd.lines), BATCH_SIZE) - 1)
    ELSE 0..(default_parts - 1)

\* Lines 127-128
start_idx(key) == key * BATCH_SIZE

end_idx(key, total) ==
    IF start_idx(key) + BATCH_SIZE < total THEN start_idx(key) + BATCH_SIZE ELSE total

\* file_paths[start_idx:end_idx], as positions 1..total of the list
selected_paths(key, total) ==
    [j \in 1..(IF end_idx(key, total) > start_idx(key)
               THEN end_idx(key, total) - start_idx(key) ELSE 0) |-> start_idx(key) + j]

\* The files of the partition that runs (filter_supported_files keeps every
\* metadata file)
final_meta_files == selected_paths(partition_key, Len(non_duplicates.lines))

\* pa.table(df) raises when a column of the rows holds values of two types
MixedRows(rs) == \E a, b \in 1..Len(rs) : rs[a].source # rs[b].source

\* The record of lines 240-254
StatusRecord ==
    [partition_key |-> partition_key,
     start_index |-> start_idx(partition_key),
     end_index |-> end_idx(partition_key, Len(non_duplicates.lines)),
     meta_files_count |-> Len(final_meta_files),
     rows_written |-> Len(part_rows),
     failed_meta |-> failed_meta,
     unsupported_format_stats |-> stats_unsupported,
     data_file_not_found_count |-> Len(data_file_not_found),
     data_file_not_found |-> data_file_not_found]

InitBatch ==
    /\ converter = "csv"
    /\ strict_iso = FALSE
    /\ raw = <<>>
    /\ df_raw = <<>>
    /\ df_converted = <<>>
    /\ col = 1
    /\ pc = "idle"
    /\ writes = <<>>
    /\ numeric_tried = <<>>
    /\ table = <<>>
    /\ date_str = <<>>
    /\ iso_result = [raised |-> FALSE, out |-> <<>>]
    /\ given = <<>>
    /\ obj = <<>>
    /\ records = <<>>
    /\ ret = <<>>
    /\ fs = {}
    /\ uuid_names = FALSE
    /\ output_path = "file"
    /\ uuids = 0
    /\ sheet_at = 1
    /\ run = 1
    /\ out_dir = <<>>
    /\ written_paths = <<>>
    /\ SigIdle
    /\ DedupeIdle
    /\ non_duplicates \in { [exists |-> FALSE, lines |-> <<>>] }
                          \cup { [exists |-> TRUE, lines |-> l] : l \in FileLists }
    /\ partition_keys = _build_partitions_def(non_duplicates)
    /\ lines_at_import = IF non_duplicates.exists THEN Len(non_duplicates.lines) ELSE -1
    /\ partition_key = -1
    /\ meta_at = 1
    /\ part_rows = <<>>
    /\ failed_meta = <<>>
    /\ stats_unsupported = 0
    /\ data_file_not_found = <<>>
    /\ status = <<>>

\* What the steps of the batch leave alone
batch_frame == <<table_vars, obj, records, ret, uuid_names, output_path, uuids,
                 sheet_at, out_dir, written_paths, sig_vars, dedupe_vars>>

\* No partition is running
BetweenRuns == pc \in {"idle", "done", "raised", "no_input"}

\* A process imports the module: lines 76-80
ImportModule ==
    /\ BetweenRuns
    /\ partition_keys' = _build_partitions_def(non_duplicates)
    /\ lines_at_import' = IF non_duplicates.exists THEN Len(non_duplicates.lines) ELSE -1
    /\ stats_unsupported' = 0
    /\ data_file_not_found' = <<>>
    /\ pc' = "idle"
    /\ UNCHANGED <<batch_frame, run, fs, non_duplicates, partition_key, meta_at, part_rows,
                   failed_meta, status>>

\* The asset deduplicated_records writes the list for the first time
deduplicated_records ==
    /\ BetweenRuns
    /\ ~non_duplicates.exists
    /\ \E l \in FileLists : non_duplicates' = [exists |-> TRUE, lines |-> l]
    /\ UNCHANGED <<batch_frame, run, fs, pc, partition_keys, lines_at_import, partition_key,
                   meta_at, part_rows, failed_meta, stats_unsupported,
                   data_file_not_found, status>>

\* Lines 106-109: format_records without a list returns at once
ReturnNoInput ==
    /\ BetweenRuns
    /\ pc # "no_input"
    /\ ~non_duplicates.exists
    /\ \E key \in partition_keys : partition_key' = key
    /\ pc' = "no_input"
    /\ UNCHANGED <<batch_frame, run, fs, non_duplicates, partition_keys, lines_at_import,
                   meta_at, part_rows, failed_meta, stats_unsupported,
                   data_file_not_found, status>>

\* Lines 110-141: format_records starts on one of the partitions; run
\* counts the runs started
StartPartition ==
    /\ BetweenRuns
    /\ non_duplicates.exists
    /\ run <= MaxRuns
    /\ run' = run + 1
    /\ \E key \in partition_keys : partition_key' = key
    /\ meta_at' = 1
    /\ part_rows' = <<>>
    /\ failed_meta' = <<>>
    /\ pc' = "loop"
    /\ UNCHANGED <<batch_frame, fs, non_duplicates, partition_keys, lines_at_import,
                   stats_unsupported, data_file_not_found, status>>

\* What the loop body of lines 143-227 does with the file at position i of
\* the list, by its kind
ProcessKind(i, kind) ==
    /\ stats_unsupported' =
           IF kind = "unsupported" THEN stats_unsupported + 1 ELSE stats_unsupported
    /\ data_file_not_found' =
           IF kind = "no_data_file" THEN Append(data_file_not_found, i)
           ELSE data_file_not_found
    /\ part_rows' =
           IF kind \in {"row", "row_odd"}
           THEN Append(part_rows,
                       [meta |-> i, source |-> IF kind = "row" THEN "str" ELSE "int"])
           ELSE part_rows
    /\ failed_meta' = IF kind = "raises" THEN Append(failed_meta, i) ELSE failed_meta

\* One iteration of the loop
ProcessFile ==
    /\ pc = "loop"
    /\ meta_at <= Len(final_meta_files)
    /\ ProcessKind(final_meta_files[meta_at], non_duplicates.lines[final_meta_files[meta_at]])
    /\ meta_at' = meta_at + 1
    /\ UNCHANGED <<batch_frame, run, fs, pc, non_duplicates, partition_keys, lines_at_import,
                   partition_key, status>>

\* Lines 229-237: the rows are written as the partition's parquet file;
\* pa.table(df) raises on rows of mixed types, and the exception leaves
\* format_records
WritePartitionParquet ==
    /\ pc = "loop"
    /\ meta_at > Len(final_meta_files)
    /\ IF part_rows # <<>> /\ MixedRows(part_rows)
       THEN pc' = "raised" /\ fs' = fs
       ELSE /\ pc' = "status"
            /\ fs' = IF part_rows = <<>> THEN fs
                     ELSE WriteFile(fs, <<"part", partition_key>>, part_rows)
    /\ UNCHANGED <<batch_frame, run, batch_vars>>

\* Lines 239-262: the status record of the partition is written
WriteStatus ==
    /\ pc = "status"
    /\ status' = (partition_key :> StatusRecord) @@ status
    /\ pc' = "done"
    /\ UNCHANGED <<batch_frame, run, fs, non_duplicates, partition_keys, lines_at_import,
                   partition_key, meta_at, part_rows, failed_meta, stats_unsupported,
                   data_file_not_found>>

NextBatch ==
    \/ ImportModule
    \/ deduplicated_records
    \/ ReturnNoInput
    \/ StartPartition
    \/ ProcessFile
    \/ WritePartitionParquet
    \/ WriteStatus

SpecBatch == InitBatch /\ [][NextBatch]_vars

(***************************************************************************)
(* deduplicate_folder (resources/refine/dedupe.py)                         *)
(***************************************************************************)
\* Most files of the folder, and the largest size limit given
MaxScan == 3

MaxSize == 2

\* The contents of the files: the bytes, of 1 to 3 bytes
Contents == { <<"y">>, <<"z", "z">>, <<"x", "x", "x">> }

\* path.stat().st_size
SizeOf(f) == Len(f.content)

\* _hash_file(path): the BLAKE2b digest, taken as free of collisions, is
\* the content read
_hash_file(f) == f.content

\* The folders: 1..MaxScan files in the order rglob lists them; a file has
\* its content, and can be read or not
Folders ==
    UNION { [1..n -> [content : Contents, readable : BOOLEAN]] : n \in 1..MaxScan }

InitDedupe ==
    /\ converter = "csv"
    /\ strict_iso = FALSE
    /\ raw = <<>>
    /\ df_raw = <<>>
    /\ df_converted = <<>>
    /\ col = 1
    /\ pc = "scan"
    /\ writes = <<>>
    /\ numeric_tried = <<>>
    /\ table = <<>>
    /\ date_str = <<>>
    /\ iso_result = [raised |-> FALSE, out |-> <<>>]
    /\ given = <<>>
    /\ obj = <<>>
    /\ records = <<>>
    /\ ret = <<>>
    /\ fs = {}
    /\ uuid_names = FALSE
    /\ output_path = "file"
    /\ uuids = 0
    /\ sheet_at = 1
    /\ run = 1
    /\ out_dir = <<>>
    /\ written_paths = <<>>
    /\ SigIdle
    /\ BatchIdle
    /\ all_files \in Folders
    /\ max_size_bytes \in 1..MaxSize
    /\ scan_at = 1
    /\ seen_hashes = {}
    /\ kept_paths = <<>>
    /\ report = <<"none">>

\* What the steps of the scan leave alone
dedupe_frame == <<table_vars, obj, records, ret, fs, uuid_names, output_path, uuids,
                  sheet_at, run, out_dir, written_paths, sig_vars, batch_vars>>

\* Lines 79-103, one iteration: the size check of lines 80-89 is commented
\* out; a file that cannot be read is skipped, a file whose hash was seen is
\* a duplicate, any other file is kept
HashNextFile ==
    /\ pc = "scan"
    /\ scan_at <= Len(all_files)
    /\ IF all_files[scan_at].readable /\ _hash_file(all_files[scan_at]) \notin seen_hashes
       THEN /\ seen_hashes' = seen_hashes \cup {_hash_file(all_files[scan_at])}
            /\ kept_paths' = Append(kept_paths, scan_at)
       ELSE UNCHANGED <<seen_hashes, kept_paths>>
    /\ scan_at' = scan_at + 1
    /\ UNCHANGED <<dedupe_frame, pc, all_files, max_size_bytes, report>>

\* Lines 105-107: write_report(kept_paths, output_file_path); return kept_paths
WriteReport ==
    /\ pc = "scan"
    /\ scan_at > Len(all_files)
    /\ report' = kept_paths
    /\ pc' = "returned"
    /\ UNCHANGED <<dedupe_frame, all_files, max_size_bytes, scan_at, seen_hashes,
                   kept_paths>>

NextDedupe ==
    \/ HashNextFile
    \/ WriteReport

SpecDedupe == InitDedupe /\ [][NextDedupe]_vars

(***************************************************************************)
(* Properties of the converters (specification Spec)                       *)
(***************************************************************************)
\* A raw cell that is a string whose trimmed text is a null token
IsNullTokenCell(v) == NotNA(v) /\ StrStrip(v) \in NULL_TOKENS

\* The classification of a column that has been through the loop body
KindOf(c) == df_converted[c].kind

\* handle_iso8601_dates accepts the column the loop read
DateAccepts(c) ==
    \E today \in Todays : handle_iso8601_dates(df_raw[c], today, strict_iso).ret

\* C1 -- Null preservation: in the table a converter writes, every cell whose
\* raw value, once trimmed, is a null token is null, whatever classification
\* its column received.
C1_NullPreservation ==
    pc = "done" =>
        \A c \in 1..Len(raw) : \A i \in 1..Len(raw[c]) :
            IsNullTokenCell(raw[c][i]) => IsNA(table[c].vals[i])

\* C2 -- One classification in strict order: a column is written exactly once
\* (never before its turn), as all-null Text exactly when it is all null,
\* otherwise as DateTime whenever the date check accepts it (even when the
\* numeric check would accept it too, and then without the numeric check being
\* run), otherwise as Integer or Float exactly when the numeric check accepts
\* it, otherwise as Text.
C2_OneClassificationInOrder ==
    \A c \in 1..Len(raw) :
        /\ writes[c] = (IF c < col THEN 1 ELSE 0)
        /\ c < col =>
              /\ KindOf(c) \in {"AllNull", "DateTime", "Integer", "Float", "Text"}
              /\ (KindOf(c) = "AllNull") <=> AllNull(df_raw[c])
              /\ (KindOf(c) = "DateTime") <=> (~AllNull(df_raw[c]) /\ DateAccepts(c))
              /\ (KindOf(c) = "DateTime") => ~numeric_tried[c]
              /\ (KindOf(c) \in {"Integer", "Float"}) =>
                     KindOf(c) = handle_numeric_column(df_raw[c]).kind
              /\ (KindOf(c) = "Text") => handle_numeric_column(df_raw[c]).kind = "None"

\* A column that passes both the date and the numeric check has been written as DateTime
C2_DateBeatsNumeric ==
    /\ pc = "done"
    /\ writes[1] = 1
    /\ table[1].kind = "DateTime"
    /\ handle_numeric_column(df_raw[1]).kind # "None"

\* The characters the numeric coercer strips from a cell
FormattingChars == {" ", ",", "£", "$", "€", "%"}

\* A cell that counts in non_null_count: a string that is no null token and
\* is not empty once its formatting is stripped
CountsAsNonNull(v) ==
    NotNA(v) /\ ~IsNullTokenCell(v) /\ RemoveChars(v, FormattingChars) # <<>>

\* A counted cell that reads as a number
CountsAsNumber(v) ==
    CountsAsNonNull(v) /\ NotNA(ToNumeric(RemoveChars(v, FormattingChars)))

\* successes / non_null_count >= 0.90 over the raw cells of a column
RawNumericFraction(s) ==
    /\ CountIf(CountsAsNonNull, s) > 0
    /\ 10 * CountIf(CountsAsNumber, s) >= 9 * CountIf(CountsAsNonNull, s)

\* C3 -- Numeric threshold: a column of the written table that is neither all
\* null nor DateTime is Integer or Float exactly when at least 0.90 of its
\* cells that are not null (null tokens and cells empty after stripping do not
\* count) read as numbers.
C3_NumericThreshold ==
    pc = "done" =>
        \A c \in 1..Len(raw) :
            table[c].kind \notin {"AllNull", "DateTime"} =>
                ((table[c].kind \in {"Integer", "Float"}) <=> RawNumericFraction(raw[c]))

\* The number a cell of the loop's column parses to (NA: it does not parse)
ParsedNumber(v) == ToNumeric(NumericCandidate(v))

\* An output cell holds the number n
HoldsNumber(out, n) ==
    IF out[1] = "int" THEN out[2] * Pow10(n[3]) = n[2]
    ELSE out[1] = "float" /\ NumEq(<<"num", out[2], out[3]>>, n)

StrippedTrailingPercent(v) ==
    IF RemoveChars(v, FormattingChars \ {"%"}) # <<>>
       /\ EndsWith(RemoveChars(v, FormattingChars \ {"%"}), <<"%">>)
    THEN SubSeq(RemoveChars(v, FormattingChars \ {"%"}), 1,
                Len(RemoveChars(v, FormattingChars \ {"%"})) - 1)
    ELSE RemoveChars(v, FormattingChars \ {"%"})

\* An output cell of a numeric column holds the number the text reads as, and
\* is null when the text reads as no number
HoldsNumberOf(out, text) ==
    IF IsNA(ToNumeric(text)) THEN IsNA(out)
    ELSE NotNA(out) /\ HoldsNumber(out, ToNumeric(text))

\* The cells of a column are strings, none of them a null token
NoNullCells(s) == \A i \in 1..Len(s) : NotNA(s[i]) /\ ~IsNullTokenCell(s[i])

TimeOfDayAt(v, k) ==
    /\ k \in {2, 3}
    /\ AllDigits(SubSeq(v, 1, k - 1))
    /\ IsNum(v, k + 1, 2)
    /\ \/ Len(v) = k + 2
       \/ /\ Len(v) >= k + 5
          /\ v[k + 3] = ":"
          /\ IsNum(v, k + 4, 2)
          /\ \/ Len(v) = k + 5
             \/ /\ Len(v) >= k + 7
                /\ v[k + 6] = "."
                /\ AllDigits(SubSeq(v, k + 7, Len(v)))

TimeOfDay(v) == NotNA(v) /\ TimeOfDayAt(StrStrip(v), IndexOf(StrStrip(v), ":"))

\* The cells the date check counts: strings that are no null token
DateCounted(v) == NotNA(v) /\ ~IsNullTokenCell(v)

\* At least half of the counted cells of a column are times of day
MostlyTimesOfDay(s) ==
    /\ CountIf(DateCounted, s) > 0
    /\ 2 * CountIf(TimeOfDay, s) >= CountIf(DateCounted, s)

\* C6 -- Time-only rejection: for a column in which at least half of the
\* non-null values are times of day, handle_iso8601_dates returns False; the
\* column is written as Text, Integer or Float, never as DateTime, and each of
\* its times of day is written as its own trimmed text.
C6_TimeOnlyRejection ==
    \A c \in 1..Len(raw) :
        (c < col /\ MostlyTimesOfDay(raw[c])) =>
            /\ ~DateAccepts(c)
            /\ KindOf(c) \in {"Text", "Integer", "Float"}
            /\ \A i \in 1..Len(raw[c]) :
                   TimeOfDay(raw[c][i]) =>
                       (KindOf(c) = "Text" /\ df_converted[c].vals[i] = StrStrip(raw[c][i]))

\* A column of one time of day and one date has been written as Text
C6_HalfTimesOfDay ==
    /\ pc = "done"
    /\ Len(raw[1]) = 2
    /\ \E i \in {1, 2} : TimeOfDay(raw[1][i])
    /\ \E i \in {1, 2} : raw[1][i] = <<"2", "0", "2", "3", "-", "0", "3", "-", "0", "1">>
    /\ table[1].kind = "Text"

\* C7 -- No time of day becomes a date: no cell whose raw value is a time of
\* day is written as a non-null value of a DateTime column.
C7_NoTimeOfDayAsDate ==
    pc = "done" =>
        \A c \in 1..Len(raw) : \A i \in 1..Len(raw[c]) :
            TimeOfDay(raw[c][i]) => ~(table[c].kind = "DateTime" /\ NotNA(table[c].vals[i]))

\* The Timestamps pandas.to_datetime reads from the column the loop read
ParsedDates(s, today) == ToDatetime(MapCol(DateCandidate, s), today)

\* date-parse successes / non_null_count >= 0.50
HalfParseAsDates(s, today) ==
    /\ CountIf(DateCounted, s) > 0
    /\ 2 * CountIf(NotNA, ParsedDates(s, today)) >= CountIf(DateCounted, s)

\* C8 -- Date threshold: a column that is not all null and not vetoed as
\* times of day is DateTime exactly when at least half of its non-null values
\* parse as dates; a DateTime column keeps its length, with null exactly where
\* a value did not parse; below the threshold the loop's column is as it was
\* and goes to the numeric check and the Text fallback.
C8_DateThreshold ==
    \A c \in 1..Len(raw) : \A today \in Todays :
        (c < col /\ ~AllNull(df_raw[c]) /\ ~MostlyTimesOfDay(raw[c])) =>
            /\ (KindOf(c) = "DateTime") <=> HalfParseAsDates(raw[c], today)
            /\ (KindOf(c) = "DateTime") =>
                  /\ Len(df_converted[c].vals) = Len(raw[c])
                  /\ \A i \in 1..Len(raw[c]) :
                         IsNA(df_converted[c].vals[i]) <=> IsNA(ParsedDates(raw[c], today)[i])
            /\ (KindOf(c) # "DateTime") =>
                  /\ KindOf(c) \in {"Integer", "Float", "Text"}
                  /\ numeric_tried[c]
                  /\ df_raw[c] = (IF converter = "json" THEN raw[c]
                                  ELSE MapCol(NullCell, raw[c]))

\* A DateTime column written with exactly half of its values parsed, the
\* other half null
C8_HalfParsed ==
    /\ pc = "done"
    /\ table[1].kind = "DateTime"
    /\ CountIf(DateCounted, raw[1]) = 2 * CountIf(NotNA, table[1].vals)
    /\ \E i \in 1..Len(raw[1]) : DateCounted(raw[1][i]) /\ IsNA(table[1].vals[i])

\* The fraction and offset that end a UTC ISO-8601 string: +00:00, or a dot,
\* one to six digits not ending in 0, and +00:00
CanonicalEnd(rest) ==
    \/ rest = UtcSuffix
    \/ /\ Len(rest) \in 8..13
       /\ rest[1] = "."
       /\ AllDigits(SubSeq(rest, 2, Len(rest) - 6))
       /\ rest[Len(rest) - 6] # "0"
       /\ SubSeq(rest, Len(rest) - 5, Len(rest)) = UtcSuffix

\* YYYY-MM-DDTHH:MM:SS[.ffffff]+00:00
CanonicalUtc(v) ==
    /\ Len(v) >= 25
    /\ IsNum(v, 1, 4) /\ v[5] = "-" /\ IsNum(v, 6, 2) /\ v[8] = "-" /\ IsNum(v, 9, 2)
    /\ v[11] = "T"
    /\ IsNum(v, 12, 2) /\ v[14] = ":" /\ IsNum(v, 15, 2) /\ v[17] = ":" /\ IsNum(v, 18, 2)
    /\ CanonicalEnd(SubSeq(v, 20, Len(v)))

\* C9 -- Date canonicalization: every non-null value of a DateTime column is a
\* UTC ISO-8601 string YYYY-MM-DDTHH:MM:SS[.ffffff]+00:00 with no trailing
\* zero in its fraction, and "1 Mar 2023" is written 2023-03-01T00:00:00+00:00.
C9_DateCanonicalization ==
    pc = "done" =>
        \A c \in 1..Len(raw) :
            table[c].kind = "DateTime" =>
                \A i \in 1..Len(raw[c]) :
                    /\ NotNA(table[c].vals[i]) => CanonicalUtc(table[c].vals[i])
                    /\ (raw[c][i] = <<"1", " ", "M", "a", "r", " ", "2", "0", "2", "3">>
                        /\ NotNA(table[c].vals[i])) =>
                           table[c].vals[i] = StrfDate(2023, 3, 1) \o <<"T">>
                               \o <<"0", "0", ":", "0", "0", ":", "0", "0">> \o UtcSuffix

(***************************************************************************)
(* Properties of the time utilities (specification SpecTime)               *)
(***************************************************************************)
\* Days from 0001-01-01 to the date y-m-d of the proleptic Gregorian calendar
DayNumber(y, m, d) ==
    365 * (y - 1) + ((y - 1) \div 4) - ((y - 1) \div 100) + ((y - 1) \div 400)
    + <<0, 31, 59, 90, 120, 151, 181, 212, 243, 273, 304, 334>>[m]
    + (IF m > 2 /\ (y % 4 = 0 /\ (y % 100 # 0 \/ y % 400 = 0)) THEN 1 ELSE 0)
    + d

\* Microseconds of a fraction as written: its first six digits
MicrosOf(fr) ==
    IF fr = <<>> THEN 0
    ELSE IF Len(fr) >= 6 THEN DigitsToNat(SubSeq(fr, 1, 6))
    ELSE DigitsToNat(fr) * Pow10(6 - Len(fr))

\* An instant is <<day number, minute of the day, second, microsecond>> in UTC.
\* The instant a clock reading denotes at the offset `off` (minutes east of UTC)
InstantAt(day, minute, second, micro, off) ==
    << day + (IF minute - off < 0 THEN -1 ELSE IF minute - off >= 1440 THEN 1 ELSE 0),
       (minute - off + 1440) % 1440, second, micro >>

\* The instant of the timestamp a string was written from (a timestamp without
\* a zone and one with a Z are read as UTC)
GivenInstant(g) ==
    InstantAt(DayNumber(g[2][1], g[2][2], g[2][3]), g[3][1] * 60 + g[3][2], g[3][3],
              MicrosOf(g[4]), g[5][2])

\* The instant of Y-MM-DDTHH:MM:SS[.f]+00:00 whose year ends before index k
ReadInstantAt(out, k) ==
    << DayNumber(DigitsToNat(SubSeq(out, 1, k - 1)), NumAt(out, k + 1, 2),
                 NumAt(out, k + 4, 2)),
       NumAt(out, k + 7, 2) * 60 + NumAt(out, k + 10, 2),
       NumAt(out, k + 13, 2),
       IF out[k + 15] = "." THEN MicrosOf(SubSeq(out, k + 16, Len(out) - 6)) ELSE 0 >>

ReadInstant(out) == ReadInstantAt(out, IndexOf(out, "-"))

\* The clock of Y-MM-DDTHH:MM:SS...: its characters HH:MM:SS
ClockText(out) == SubSeq(out, IndexOf(out, "-") + 7, IndexOf(out, "-") + 14)

\* C10 -- parse_to_iso8601_utc normalizes to UTC: whenever it returns for a
\* non-empty string, the result ends with +00:00; for a string written from a
\* timestamp the result denotes the same instant (to the microsecond), an
\* explicit offset being shifted to UTC (11:26:06+01:00 gives 10:26:06+00:00)
\* and a Z or no zone leaving the date and the clock as written.
C10_NormalizesToUtc ==
    (pc = "returned" /\ date_str # <<>>) =>
        /\ EndsWith(iso_result.out, UtcSuffix)
        /\ given # <<>>
        /\ ReadInstant(iso_result.out) = GivenInstant(given)
        /\ given[5][2] = 0 =>
              /\ ClockText(iso_result.out) = WriteClock(given[3])
              /\ ReadInstant(iso_result.out)[1]
                     = DayNumber(given[2][1], given[2][2], given[2][3])
        /\ given = <<"T", <<2025, 1, 27>>, <<11, 26, 6>>, <<>>, <<"offset", 60>> >> =>
              iso_result.out = StrfDate(2025, 1, 27)
                  \o <<"T", "1", "0", ":", "2", "6", ":", "0", "6">> \o UtcSuffix

\* A timestamp with an offset has been shifted to UTC onto the day before
C10_ShiftedOverMidnight ==
    /\ pc = "returned"
    /\ given # <<>>
    /\ given[5] = <<"offset", 60>>
    /\ given[3] = <<0, 15, 0>>
    /\ ClockText(iso_result.out) = <<"2", "3", ":", "1", "5", ":", "0", "0">>
    /\ ReadInstant(iso_result.out)[1]
           = DayNumber(given[2][1], given[2][2], given[2][3]) - 1

\* C11 -- Row count: every column the loop has written, of whatever
\* classification, has as many cells as its raw column, and the table a
\* converter writes has every column of the raw table, each of the raw
\* table's row count.
C11_RowCount ==
    /\ \A c \in 1..Len(raw) :
           c < col => Len(df_converted[c].vals) = Len(raw[1])
    /\ pc = "done" =>
           /\ Len(table) = Len(raw)
           /\ \A c \in 1..Len(table) : Len(table[c].vals) = Len(raw[1])

\* A table of several rows written with an all-null column next to a
\* column of another classification
C11_MixedTableWritten ==
    /\ pc = "done"
    /\ Len(table) > 1
    /\ Len(raw[1]) > 1
    /\ \E c, d \in 1..Len(table) :
           /\ table[c].kind = "AllNull"
           /\ table[d].kind \in {"DateTime", "Integer", "Float", "Text"}

\* C12 -- No column aborts the table: the per-column loop never ends by a
\* raised exception, whatever the cells hold.
C12_NoColumnAborts == pc # "raised"

(***************************************************************************)
(* Properties of convert_json_to_parquet (specification SpecJson)          *)
(***************************************************************************)
\* The document is an object with an "error" key
ErrorDocument ==
    obj[1] = "dict" /\ \E i \in 1..Len(obj[2]) : obj[2][i] = "error"

\* The i-th wrapper key is in the document and holds a list
HoldsListAt(i) ==
    \E n \in 1..Len(obj[2]) :
        obj[2][n] = WrapperKeys[i] /\ obj[3][n][1] = "list"

\* The rows have been decided for a document that is JSON and no error envelope
RowsDecided ==
    pc \in {"records", "returned", "raised"} /\ obj # InvalidJson /\ ~ErrorDocument

C14_ErrorPayloadRaises ==
    (ErrorDocument /\ pc # "open") => ret = Raised("ValueError")

\* C15 -- JSON shape precedence: a list gives its elements as rows; an error
\* envelope gives no rows; otherwise the first of data, results, rows, items
\* that holds a list gives that list, whatever the other values are;
\* otherwise the object is transposed or taken as one row.
C15_ShapePrecedence ==
    /\ ErrorDocument => records = <<>>
    /\ RowsDecided =>
          /\ obj[1] = "list" => records = obj[2]
          /\ obj[1] = "dict" =>
                /\ \A i \in 1..Len(WrapperKeys) :
                      (HoldsListAt(i) /\ \A j \in 1..(i - 1) : ~HoldsListAt(j))
                          => records = Get(obj, WrapperKeys[i])[2]
                /\ (\A i \in 1..Len(WrapperKeys) : ~HoldsListAt(i))
                          => (records = <<obj>> \/ IsColumnar(obj))
          /\ obj = JObj(<<"data">>, << JList(<<JObj(<<"a">>, <<JNum(1)>>)>>) >>)
                => records = << JObj(<<"a">>, <<JNum(1)>>) >>

\* An object whose keys are results then data, both holding lists of one
\* length but of different elements, has been unwrapped to the list of data
C15_DataBeforeResults ==
    /\ pc = "records"
    /\ obj[1] = "dict"
    /\ obj[2] = <<"results", "data">>
    /\ obj[3][1][1] = "list" /\ obj[3][2][1] = "list"
    /\ Len(obj[3][1][2]) = Len(obj[3][2][2])
    /\ obj[3][1] # obj[3][2]
    /\ records = obj[3][2][2]

\* Every value of the object is a list and the lists have one length
ListsOfOneLength ==
    /\ \A n \in 1..Len(obj[3]) : obj[3][n][1] = "list"
    /\ \A n, m \in 1..Len(obj[3]) : Len(obj[3][n][2]) = Len(obj[3][m][2])

\* C16 -- Columnar transpose: an object with no wrapper key holding a list,
\* whose values are all lists of one length n, gives n rows, row i mapping
\* every key k to obj[k][i]; an object whose lists differ in length, that has
\* a value that is no list, or that is empty, is one row.
C16_ColumnarTranspose ==
    (RowsDecided /\ obj[1] = "dict" /\ \A i \in 1..Len(WrapperKeys) : ~HoldsListAt(i)) =>
        IF obj[2] # <<>> /\ ListsOfOneLength
        THEN /\ Len(records) = Len(obj[3][1][2])
             /\ \A i \in 1..Len(records) :
                   /\ records[i][1] = "dict"
                   /\ records[i][2] = obj[2]
                   /\ \A n \in 1..Len(obj[2]) : records[i][3][n] = obj[3][n][2][i]
        ELSE records = <<obj>>

\* An object of two lists of two elements has been transposed to two rows
\* that differ
C16_TwoRowsTransposed ==
    /\ pc = "records"
    /\ obj[1] = "dict"
    /\ obj[2] = <<"a", "b">>
    /\ ListsOfOneLength
    /\ Len(records) = 2
    /\ records[1] # records[2]
    /\ records[1][3][1] # records[1][3][2]

\* C17 -- A malformed or unrecognizable payload is a file-level error: for a
\* text that is no JSON, and for a JSON value that is neither a list nor an
\* object, the converter ends by raising and writes no table.
C17_UnrecognizedShapeRaises ==
    (pc \in {"returned", "raised"}
     /\ (obj = InvalidJson \/ obj[1] \notin {"list", "dict"})) =>
        (ret[1] = "raise" /\ fs = {})

\* The rows that are objects
ObjectRows == { i \in 1..Len(records) : records[i][1] = "dict" }

\* The top-level keys of the rows, as column names
TopLevelKeys ==
    UNION { { <<records[i][2][n]>> : n \in 1..Len(records[i][2]) } : i \in ObjectRows }

\* The paths of keys that lead, through objects only, to a value that is no object
RECURSIVE LeafPathsOf(_, _)
LeafPathsOf(v, path) ==
    IF v[1] = "dict"
    THEN UNION { LeafPathsOf(v[3][n], Append(path, v[2][n])) : n \in 1..Len(v[2]) }
    ELSE {path}

\* The value a path of keys leads to in v (Missing: it leads nowhere)
RECURSIVE ValueAt(_, _)
ValueAt(v, path) ==
    IF path = <<>> THEN v
    ELSE IF v[1] = "dict" /\ HasKey(v, Head(path))
    THEN ValueAt(Get(v, Head(path)), Tail(path))
    ELSE Missing

\* The names of the columns of the table written
ColumnNames == { table[c].name : c \in 1..Len(table) }

\* A table has been written from rows
TableWritten == pc = "returned" /\ records # <<>>

FanOutDone == Len(obj) > 1 /\ run = 1 /\ pc = "returned" /\ sheet_at > Len(obj)

\* C19 -- Multi-sheet fan-out: once a workbook of N > 1 sheets is converted
\* into an empty destination, the destination holds exactly N files, one
\* with the table of each sheet, under both naming policies.
C19_MultiSheetFanOut ==
    FanOutDone =>
        /\ Cardinality(fs) = Len(obj)
        /\ \A i \in 1..Len(obj) : \E f \in fs : f[2].sheet = obj[i].name

\* Every path a conversion wrote
PathsWritten ==
    UNION { { <<r, i, written_paths[r][i]>> : i \in 1..Len(written_paths[r]) } :
              r \in 1..MaxRuns }

\* C20 -- Anonymized naming: under uuid_names every path written names a
\* file by a uuid (below a uuid directory for a workbook of several sheets),
\* and no two writes, of one conversion or of two conversions into the same
\* destination, go to the same path.
C20_AnonymizedNaming ==
    uuid_names =>
        /\ \A w \in PathsWritten :
              /\ w[3] # <<>>
              /\ \A k \in 1..Len(w[3]) : w[3][k][1] = "uuid"
              /\ Len(obj) > 1 => Len(w[3]) = 2
        /\ \A v, w \in PathsWritten :
              (v[1] # w[1] \/ v[2] # w[2]) => v[3] # w[3]

(***************************************************************************)
(* Properties of the workbook read under the alarm (SpecSheets)            *)
(***************************************************************************)
\* The call is over: it returned or it raised
CallOver == pc \in {"returned", "raised"}

\* The call returned None, which is how lines 134-136 report a timeout
ReportedTimedOut == pc = "returned" /\ written_paths[run] = <<>>

\* C21: a read that exceeded FILE_READ_TIMEOUT and was abandoned is reported
\* to the caller by raising ReadTimeoutError, and no output file is written
C21_TimeoutRaisesReadTimeoutError ==
    (CallOver /\ read = "abandoned") =>
        /\ pc = "raised"
        /\ ret = Raised("ReadTimeoutError")
        /\ written_paths[run] = <<>>

\* C24: when the call has returned or raised, the SIGALRM handler and the
\* alarm the caller had pending are what they were when it was called
C24_SignalStateUnchanged ==
    CallOver => /\ handler = caller_sig.handler
                /\ alarm = caller_sig.alarm

\* C27: the alarm interrupts only the workbook read: no alarm is pending
\* once the sheets are converted, a read that completed is not reported as
\* timed out, and TimeoutException does not leave the function
C27_AlarmInterruptsOnlyTheRead ==
    /\ (pc \in {"len_sheets", "sheets"} => alarm = "none")
    /\ (read = "done" => ~ReportedTimedOut)
    /\ (pc = "raised" => ret # Raised("TimeoutException"))

\* C28: when a sheet of a workbook of several sheets fails, no output file
\* of that workbook is left behind
C28_AllOrNothing ==
    (pc = "raised" /\ Len(obj) > 1) =>
        \A k \in 1..Len(written_paths[run]) :
            \A f \in fs : f[1] # written_paths[run][k]

(***************************************************************************)
(* Properties of the write (SpecWrite)                                     *)
(***************************************************************************)
\* C22: at no moment, a crash included, does the destination hold a
\* partially written table: every file visible there is a complete one
C22_NoPartialTableVisible ==
    \A f \in fs : f[1] = OutputParquet => f[2].footer

(***************************************************************************)
(* Properties of repeated conversion (SpecTwice)                           *)
(***************************************************************************)
\* C23: converting the same source once more, at whatever time, yields the
\* classifications and typed values of the conversion before: no value
\* depends on the date of the conversion
C23_SameSourceSameTable ==
    [][run > 1 => ret' = ret]_vars

(***************************************************************************)
(* Properties of format_records (SpecBatch)                                *)
(***************************************************************************)
\* The positions of the files of kind `kind` in the slice of partition key,
\* in the order of the list
FilesOfKind(key, kind) ==
    SelectSeq(selected_paths(key, Len(non_duplicates.lines)),
              LAMBDA i : non_duplicates.lines[i] = kind)

\* A run of format_records on a partition is over
RunOver == pc \in {"done", "raised"}

\* C25: a file that raises does not keep the later files of the partition
\* from being processed, each file that raised is in failed_meta exactly
\* once, and the status record of the partition is written after the loop
\* whatever failed
C25_BatchIsolation ==
    RunOver =>
        /\ meta_at = Len(final_meta_files) + 1
        /\ failed_meta = FilesOfKind(partition_key, "raises")
        /\ partition_key \in DOMAIN status
        /\ status[partition_key].failed_meta = failed_meta

\* The 0-based indices of the list that partition k processes
ProgramSlice(k, total) ==
    { selected_paths(k, total)[j] - 1 : j \in 1..Len(selected_paths(k, total)) }

\* Keys 0..ceil(L/BATCH_SIZE)-1, slices [i*BATCH_SIZE, min((i+1)*BATCH_SIZE, L)),
\* each index of the list in exactly one slice
PartitionsCover(total) ==
    /\ partition_keys = { k \in 0..total : k * BATCH_SIZE < total }
    /\ \A k \in partition_keys :
           ProgramSlice(k, total) =
               { i \in 0..(total - 1) : k * BATCH_SIZE <= i /\ i < (k + 1) * BATCH_SIZE }
    /\ \A i \in 0..(total - 1) :
           Cardinality({ k \in partition_keys : i \in ProgramSlice(k, total) }) = 1
    /\ \A k \in DOMAIN status :
           /\ status[k].start_index = k * BATCH_SIZE
           /\ status[k].end_index \in {(k + 1) * BATCH_SIZE, total}
           /\ status[k].end_index <= total

C30_StatusOfOwnRun ==
    \A k \in DOMAIN status :
        /\ status[k].unsupported_format_stats = Len(FilesOfKind(k, "unsupported"))
        /\ status[k].data_file_not_found = FilesOfKind(k, "no_data_file")
        /\ status[k].data_file_not_found_count = Len(FilesOfKind(k, "no_data_file"))

(***************************************************************************)
(* Properties of deduplicate_folder (SpecDedupe)                           *)
(***************************************************************************)
\* The file at position i is not larger than the limit and can be read
Eligible(i) == SizeOf(all_files[i]) <= max_size_bytes /\ all_files[i].readable

\* The first path of every distinct content among the eligible files
FirstOfEachContent ==
    SelectSeq([i \in 1..Len(all_files) |-> i],
              LAMBDA i : /\ Eligible(i)
                         /\ \A j \in 1..(i - 1) :
                                Eligible(j) => all_files[j].content # all_files[i].content)

\* C26: no file larger than max_size_bytes is in the returned list or in
\* the report, and of the other files exactly the first path of each
\* distinct content is
C26_LargeFilesIgnored ==
    pc = "returned" =>
        /\ \A k \in 1..Len(kept_paths) :
               SizeOf(all_files[kept_paths[k]]) <= max_size_bytes
        /\ kept_paths = FirstOfEachContent
        /\ report = kept_paths

====
